---- MODULE Spec2Model ----
(***************************************************************************)
(* Consultation / transcription / note lifecycle of the medinote web app.  *)
(*                                                                         *)
(* The database tables (consultations, medical_notes) are modelled as      *)
(* sequences of rows whose index is the row id (ids are generated fresh by *)
(* the database).  The ConsultationPage component state, the AudioRecorder *)
(* component state and the asynchronous requests in flight (each async     *)
(* handler is split at its await) are the remaining variables.             *)
(*                                                                         *)
(* Text values are sequences of tokens; the token " " is whitespace.       *)
(* An optional value (null | object) is a sequence of length 0 or 1.       *)
(***************************************************************************)
EXTENDS Integers, Sequences, FiniteSets, Bags, TLC

\* ---------------------------------------------------------------- bounds
MaxCons == 2            \* consultation rows the model creates at most
MaxNotes == 2           \* medical_notes rows the model creates at most
MaxInFlight == 2        \* requests (backend, database) in flight at once
MaxChunks == 2          \* dataavailable events of one recording before stop
MaxTime == 2            \* seconds the recording timer counts

\* ---------------------------------------------------------------- inputs
\* transcripts: empty, whitespace-only, text with surrounding whitespace
Texts == { <<>>, <<" ">>, <<" ", "headache", " ">> }
\* what the editor lets the practitioner type into the SOAP fields
EditTexts == { <<"edited">> }
\* status of a consultation row that exists before the session starts
InitialStatuses == { "in_progress", "cancelled" }
\* what can be typed into the "Patient Name" and "Patient ID" inputs
PatientNames == { <<>>, <<" ">>, <<"John", " ", "Doe">> }
PatientIds == { <<>>, <<"P12345">> }
\* supabase.auth.getUser(): nobody, or the signed-in practitioner
Users == { <<>>, <<"doctor-1">>, <<"doctor-2">> }
\* the patient the session of Spec is about
\* event.data of a dataavailable event: no bytes, or some bytes
ChunkData == { <<>>, <<"a">>, <<"b">> }
SomePatient == << "John", " ", "Doe" >>
SomeDoctor == << "doctor-1" >>

\* ------------------------------------------------------- program constants
PlaceholderText ==
    <<"Audio recorded but transcription failed. Please review the audio manually.">>
TranscriptionFailedText == <<"Transcription failed">>
NoSpeechText ==
    <<"Audio recorded but no speech was detected. Please check audio quality and try again.">>

VARIABLES
    consultations,    \* table public.consultations: row id -> [status]
    medical_notes,    \* table public.medical_notes: row id -> note row
    route,            \* 0 = dashboard, c = /consultation/c (useParams id)
    consultation,     \* ConsultationPage state: <<>> or <<[id, status]>>
    medicalNote,      \* ConsultationPage state: <<>> or <<note row>>
    isProcessing,     \* ConsultationPage state
    activeTab,        \* ConsultationPage state: "recording" | "notes"
    isRecording,      \* AudioRecorder state
    transcribing,     \* backend transcription requests in flight
    htcPending,       \* handleTranscriptionComplete calls awaiting the upsert
    savePending,      \* handleSaveNote calls awaiting the update
    completePending,  \* handleCompleteConsultation calls awaiting the update
    outcome,          \* how the handler that ran last ended: ok | toast_error | throw
    user,             \* supabase.auth session: <<>> or <<user id>>
    isPaused,         \* AudioRecorder state
    recordingTime,    \* AudioRecorder state (seconds)
    timerRef,         \* AudioRecorder: TRUE while timerRef.current holds an interval
    chunks,           \* AudioRecorder: chunksRef.current
    mediaState,       \* mediaRecorderRef.current.state: inactive | recording | paused
    tracksLive,       \* the tracks of the recorder's microphone stream are live
    pollFn,           \* transcription function invoked: which of the two
    pollPc,           \* transcription function: idle | upload | create | wait | poll | done
    attempts,         \* transcription function: let attempts
    statusChecks,     \* transcription function: status requests sent to the vendor
    waits,            \* transcription function: one-second waits of the loop that have elapsed
    statusData,       \* transcription function: <<>> or <<the answer to the last status request>>
    pollResponse,     \* transcription function: the Response returned
    pollKey,          \* transcription function: ASSEMBLYAI_API_KEY is set in its environment
    genFn,            \* note-generation function invoked: which variant
    genTranscript,    \* note-generation function: transcript of the request body
    genPc,            \* note-generation function: idle | generate | retry | done
    llmCalls,         \* note-generation function: generation requests sent to the vendor
    genReply,         \* note-generation function: <<>> or <<what the vendor answered last>>
    genResponse,      \* note-generation function: the Response returned
    genKey,           \* note-generation function: the vendor's API key is set in its environment
    audio_recordings, \* table public.audio_recordings: set of rows
    clock,            \* database time
    cleanupRuns,      \* cleanup_expired_recordings() calls in progress or returned
    dashboardList,    \* Dashboard state: const [consultations, setConsultations]
    selected,         \* rows the last SELECT through the gateway returned
    downloads,        \* the text files the browser was made to download, in order
    startPending,     \* AudioRecorder: startRecording calls awaiting getUserMedia
    recorders,        \* the MediaRecorder objects created, in order: [state, tracks]
    mediaRef,         \* mediaRecorderRef.current: 0 (null) or an index of recorders
    lostTimers,       \* intervals still firing that timerRef.current no longer holds
    audioObjects      \* the audio objects handed to transcribeAudio, in order

pageVars == << consultations, medical_notes, route, consultation, medicalNote,
               isProcessing, activeTab, isRecording, transcribing,
               htcPending, savePending, completePending, outcome, user >>

recorderVars == << isPaused, recordingTime, timerRef, chunks, mediaState, tracksLive >>

pollVars == << pollFn, pollPc, attempts, statusChecks, waits, statusData,
              pollResponse, pollKey >>

genVars == << genFn, genTranscript, genPc, llmCalls, genReply, genResponse, genKey >>

cleanupVars == << audio_recordings, clock, cleanupRuns >>

serverVars == << pollVars, genVars, cleanupVars >>

gatewayVars == << dashboardList, selected >>

\* the AudioRecorder with its awaits and events as steps of their own
captureVars == << startPending, recorders, mediaRef, lostTimers, audioObjects >>

\* effects of the page outside its own state
sideVars == << downloads, captureVars >>

\* what an action of the consultation page leaves alone
offPageVars == << serverVars, gatewayVars, sideVars >>

\* what an action of a backend function or of the database leaves alone
browserVars == << pageVars, recorderVars, gatewayVars, sideVars >>

vars == << pageVars, recorderVars, serverVars, gatewayVars, sideVars >>

\* ---------------------------------------------------------------- helpers
\* requests in flight are bags: they are answered in any order
Put(b, e) == b (+) SetToBag({e})
Take(b, e) == b (-) SetToBag({e})

\* the component that issued these requests was unmounted: its state setters
\* no longer have any effect, the requests themselves go on
Orphan(b) ==
    LET dead(e) == [e EXCEPT !.live = FALSE]
        alive(e) == [e EXCEPT !.live = TRUE]
    IN  [ d \in { dead(e) : e \in BagToSet(b) } |->
            (IF BagIn(d, b) THEN CopiesIn(d, b) ELSE 0)
          + (IF BagIn(alive(d), b) THEN CopiesIn(alive(d), b) ELSE 0) ]

RECURSIVE TrimStart(_)
TrimStart(t) == IF t # <<>> /\ Head(t) = " " THEN TrimStart(Tail(t)) ELSE t

RECURSIVE TrimEnd(_)
TrimEnd(t) == IF t # <<>> /\ t[Len(t)] = " " THEN TrimEnd(SubSeq(t, 1, Len(t) - 1)) ELSE t

\* String.prototype.trim
Trim(t) == TrimEnd(TrimStart(t))

\* !transcript || transcript.trim().length === 0
IsBlank(t) == t = <<>> \/ Len(Trim(t)) = 0

\* new Blob(chunks): the bytes of the chunks, in order
RECURSIVE Blob(_)
Blob(cs) == IF cs = <<>> THEN <<>> ELSE Head(cs) \o Blob(Tail(cs))

NotesOf(c) == { i \in 1..Len(medical_notes) : medical_notes[i].consultation_id = c }

\* requests that will still insert a medical_notes row
NotesInFlight == BagCardinality(transcribing) + BagCardinality(htcPending)

\* all requests in flight
InFlight == NotesInFlight + BagCardinality(savePending) + BagCardinality(completePending)

\* ------------------------------------------------------- database gateway
\* NewConsultationRow storing the patient id as typed, also when empty
NewConsultationRow_PidAsTyped(name, pid, doctor) ==
    [ status |-> "in_progress",
      patient_name |-> name,
      patient_id |-> << pid >>,
      doctor_id |-> doctor ]

\* public.consultations INSERT of { patient_name, patient_id: patientId || null,
\* doctor_id }: id generated, status DEFAULT 'in_progress'
NewConsultationRow(name, pid, doctor) ==
    [ status |-> "in_progress",
      patient_name |-> name,
      patient_id |-> IF pid = <<>> THEN <<>> ELSE << pid >>,
      doctor_id |-> doctor ]

\* the INSERT is refused without a doctor_id (NOT NULL; row-level security
\* checks auth.uid() = doctor_id)
InsertAccepted(u) == u # <<>>

\* row-level security: a consultation is visible to its doctor only
Visible(rows, c) == user # <<>> /\ rows[c].doctor_id = user[1]

\* .upsert(payload) without onConflict resolves conflicts on the primary key.
\* The payload carries no id, so the id is generated and never conflicts, and
\* medical_notes has no UNIQUE constraint on consultation_id: a row is added.
Upsert(rows, payload) ==
    IF "id" \in DOMAIN payload /\ payload.id \in 1..Len(rows)
    THEN [rows EXCEPT ![payload.id] = payload]
    ELSE Append(rows, [id |-> Len(rows) + 1] @@ payload)

\* .select('*').eq('consultation_id', id).maybeSingle(): one row, or null for
\* no row; several rows are error PGRST116, which fetchMedicalNote ignores
FetchNote(c) ==
    IF Cardinality(NotesOf(c)) = 1
    THEN << medical_notes[CHOOSE i \in NotesOf(c) : TRUE] >>
    ELSE <<>>

\* ----------------------------------------------- handleTranscriptionComplete
\* HtcPayload with the note marked reviewed by the automatic write
HtcPayload_Reviewed(cid, transcript) ==
    [ consultation_id |-> cid,
      subjective |-> IF IsBlank(transcript) THEN PlaceholderText ELSE transcript,
      objective |-> <<>>, assessment |-> <<>>, plan |-> <<>>,
      raw_transcript |-> IF IsBlank(transcript) THEN TranscriptionFailedText ELSE transcript,
      extracted_entities |-> {},
      is_reviewed |-> TRUE ]

\* HtcPayload keeping the blank transcript as raw_transcript
HtcPayload_RawBlank(cid, transcript) ==
    [ consultation_id |-> cid,
      subjective |-> IF IsBlank(transcript) THEN PlaceholderText ELSE transcript,
      objective |-> <<>>, assessment |-> <<>>, plan |-> <<>>,
      raw_transcript |-> transcript,
      extracted_entities |-> {},
      is_reviewed |-> FALSE ]

\* HtcPayload storing the trimmed transcript as subjective
HtcPayload_Trimmed(cid, transcript) ==
    [ consultation_id |-> cid,
      subjective |-> IF IsBlank(transcript) THEN PlaceholderText ELSE Trim(transcript),
      objective |-> <<>>, assessment |-> <<>>, plan |-> <<>>,
      raw_transcript |-> IF IsBlank(transcript) THEN TranscriptionFailedText ELSE transcript,
      extracted_entities |-> {},
      is_reviewed |-> FALSE ]

\* the row handleTranscriptionComplete upserts for a transcript
HtcPayload(cid, transcript) ==
    IF IsBlank(transcript)
    THEN [ consultation_id |-> cid,
           subjective |-> PlaceholderText,
           objective |-> <<>>, assessment |-> <<>>, plan |-> <<>>,
           raw_transcript |-> TranscriptionFailedText,
           extracted_entities |-> {},
           is_reviewed |-> FALSE ]
    ELSE [ consultation_id |-> cid,
           subjective |-> transcript,
           objective |-> <<>>, assessment |-> <<>>, plan |-> <<>>,
           raw_transcript |-> transcript,
           extracted_entities |-> {},
           is_reviewed |-> FALSE ]

\* the synchronous part of handleTranscriptionComplete, up to the await of
\* the upsert: setIsProcessing(true) and the request
HtcCalled(cid, live, transcript) ==
    /\ htcPending' = Put(htcPending, [cid |-> cid, live |-> live, transcript |-> transcript])
    /\ isProcessing' = IF live THEN TRUE ELSE isProcessing

\* ------------------------------------------------------------ page (un)mount
\* a newly mounted AudioRecorder: useState / useRef initial values
RecorderReset ==
    /\ isPaused' = FALSE
    /\ recordingTime' = 0
    /\ timerRef' = FALSE
    /\ chunks' = <<>>
    /\ mediaState' = "inactive"
    /\ tracksLive' = FALSE

\* ConsultationPage is unmounted: its state is gone, its requests go on
Unmounted ==
    /\ route' = 0
    /\ consultation' = <<>>
    /\ medicalNote' = <<>>
    /\ isProcessing' = FALSE
    /\ activeTab' = "recording"
    /\ isRecording' = FALSE
    /\ RecorderReset
    /\ transcribing' = Orphan(transcribing)
    /\ htcPending' = Orphan(htcPending)
    /\ savePending' = Orphan(savePending)
    /\ completePending' = Orphan(completePending)

\* ConsultationPage mounts on /consultation/c: fetchConsultation and
\* fetchMedicalNote run; the page renders once both have answered
Mounted(c, rows, consOk, noteOk) ==
    IF consOk
    THEN /\ route' = c
         /\ consultation' = << [id |-> c, status |-> rows[c].status] >>
         /\ medicalNote' = IF noteOk THEN FetchNote(c) ELSE <<>>
         /\ activeTab' = IF noteOk /\ FetchNote(c) # <<>> THEN "notes" ELSE "recording"
    ELSE /\ route' = 0
         /\ consultation' = <<>>
         /\ medicalNote' = <<>>
         /\ activeTab' = "recording"

\* ------------------------------------------------------------------ Init
\* the tables and the browser before the session
PageInit ==
    /\ consultations \in
          { << [NewConsultationRow(SomePatient, <<>>, SomeDoctor[1]) EXCEPT !.status = s] >> :
              s \in InitialStatuses }
    /\ medical_notes = <<>>
    /\ route = 0
    /\ consultation = <<>>
    /\ medicalNote = <<>>
    /\ isProcessing = FALSE
    /\ activeTab = "recording"
    /\ isRecording = FALSE
    /\ transcribing = EmptyBag
    /\ htcPending = EmptyBag
    /\ savePending = EmptyBag
    /\ completePending = EmptyBag
    /\ outcome = "ok"
    /\ user = SomeDoctor
    /\ isPaused = FALSE
    /\ recordingTime = 0
    /\ timerRef = FALSE
    /\ chunks = <<>>
    /\ mediaState = "inactive"
    /\ tracksLive = FALSE
    /\ dashboardList = <<>>
    /\ selected = {}
    /\ downloads = <<>>
    /\ startPending = 0
    /\ recorders = <<>>
    /\ mediaRef = 0
    /\ lostTimers = 0
    /\ audioObjects = <<>>

\* the backend functions at rest
BackendIdle ==
    /\ pollFn = "transcribe-assemblyai"
    /\ pollPc = "idle"
    /\ attempts = 0
    /\ statusChecks = 0
    /\ waits = 0
    /\ statusData = <<>>
    /\ pollResponse = <<>>
    /\ pollKey = TRUE
    /\ genFn = "generate-soap-note"
    /\ genTranscript = <<>>
    /\ genPc = "idle"
    /\ llmCalls = 0
    /\ genReply = <<>>
    /\ genResponse = <<>>
    /\ genKey = TRUE

\* the application never inserts a recording row; no cleanup has been called
ServerIdle ==
    /\ BackendIdle
    /\ audio_recordings = {}
    /\ clock = 0
    /\ cleanupRuns = <<>>

Init == PageInit /\ ServerIdle

\* ------------------------------------------------------------- dashboard
\* NewConsultationDialog.handleSubmit: insert, then navigate to the new page
\* The form submits only with a non-empty name (input attribute "required").
CreateConsultation(name, pid, ok, consOk, noteOk) ==
    /\ route = 0
    /\ Len(consultations) < MaxCons
    /\ name # <<>>
    /\ IF ok /\ InsertAccepted(user)
       THEN /\ consultations' = Append(consultations, NewConsultationRow(name, pid, user[1]))
            /\ Mounted(Len(consultations) + 1, consultations', consOk, noteOk)
            /\ outcome' = IF consOk THEN "ok" ELSE "toast_error"
       ELSE /\ UNCHANGED << consultations, route, consultation, medicalNote, activeTab >>
            /\ outcome' = "toast_error"
    /\ UNCHANGED << medical_notes, isProcessing, isRecording,
                    transcribing, htcPending, savePending, completePending >>
    /\ UNCHANGED << recorderVars, user, offPageVars >>

\* ConsultationCard.handleViewConsultation: navigate to an existing consultation
ViewConsultation(c, consOk, noteOk) ==
    /\ route = 0
    /\ c \in 1..Len(consultations)
    /\ Mounted(c, consultations, consOk /\ Visible(consultations, c), noteOk)
    /\ outcome' = IF consOk /\ Visible(consultations, c) THEN "ok" ELSE "toast_error"
    /\ UNCHANGED << consultations, medical_notes, isProcessing, isRecording,
                    transcribing, htcPending, savePending, completePending >>
    /\ UNCHANGED << recorderVars, user, offPageVars >>

\* "Back to Dashboard": navigate('/')
BackToDashboard ==
    /\ route # 0
    /\ Unmounted
    /\ outcome' = "ok"
    /\ UNCHANGED << consultations, medical_notes >>
    /\ UNCHANGED << user, offPageVars >>

\* Tabs onValueChange; the notes trigger is disabled while there is no note.
\* Leaving the recording tab unmounts the AudioRecorder (its state resets).
SwitchTab(tab) ==
    /\ route # 0
    /\ tab # activeTab
    /\ tab = "notes" => medicalNote # <<>>
    /\ activeTab' = tab
    /\ isRecording' = FALSE
    /\ RecorderReset
    /\ outcome' = "ok"
    /\ UNCHANGED << consultations, medical_notes, route, consultation, medicalNote,
                    isProcessing, transcribing, htcPending, savePending,
                    completePending >>
    /\ UNCHANGED << user, offPageVars >>

\* ---------------------------------------------------------- AudioRecorder
RecorderMounted == route # 0 /\ activeTab = "recording"

\* StartRecording that resets the counter and starts the timer before the microphone is granted
StartRecording_PartialOnDenial(granted) ==
    /\ RecorderMounted
    /\ ~isRecording
    /\ ~isProcessing
    /\ IF granted
       THEN /\ mediaState' = "recording"
            /\ tracksLive' = TRUE
            /\ chunks' = <<>>
            /\ isRecording' = TRUE
            /\ recordingTime' = 0
            /\ timerRef' = TRUE
            /\ isPaused' = isPaused
            /\ outcome' = "ok"
       ELSE /\ isRecording' = isRecording
            /\ recordingTime' = 0
            /\ timerRef' = TRUE
            /\ UNCHANGED << isPaused, chunks, mediaState, tracksLive >>
            /\ outcome' = "toast_error"
    /\ UNCHANGED << consultations, medical_notes, route, consultation, medicalNote,
                    isProcessing, activeTab, transcribing, htcPending,
                    savePending, completePending >>
    /\ UNCHANGED << user, offPageVars >>

\* startRecording: the button shows while !isRecording and is disabled while
\* isProcessing; a refused microphone ends in the catch (toast)
StartRecording(granted) ==
    /\ RecorderMounted
    /\ ~isRecording
    /\ ~isProcessing
    /\ IF granted
       THEN /\ mediaState' = "recording"
            /\ tracksLive' = TRUE
            /\ chunks' = <<>>
            /\ isRecording' = TRUE
            /\ recordingTime' = 0
            /\ timerRef' = TRUE
            /\ isPaused' = isPaused
            /\ outcome' = "ok"
       ELSE /\ isRecording' = isRecording
            /\ UNCHANGED recorderVars
            /\ outcome' = "toast_error"
    /\ UNCHANGED << consultations, medical_notes, route, consultation, medicalNote,
                    isProcessing, activeTab, transcribing, htcPending,
                    savePending, completePending >>
    /\ UNCHANGED << user, offPageVars >>

\* mediaRecorder.ondataavailable (every second while recording): a chunk
\* with bytes is pushed, an empty one is dropped
DataAvailable(data) ==
    /\ RecorderMounted
    /\ mediaState = "recording"
    /\ Len(chunks) < MaxChunks
    /\ chunks' = IF Len(data) > 0 THEN Append(chunks, data) ELSE chunks
    /\ outcome' = "ok"
    /\ UNCHANGED << isPaused, recordingTime, timerRef, mediaState, tracksLive >>
    /\ UNCHANGED << consultations, medical_notes, route, consultation, medicalNote,
                    isProcessing, activeTab, isRecording, transcribing, htcPending,
                    savePending, completePending >>
    /\ UNCHANGED << user, offPageVars >>

\* the interval of startTimer fires
Tick ==
    /\ RecorderMounted
    /\ timerRef
    /\ recordingTime < MaxTime
    /\ recordingTime' = recordingTime + 1
    /\ outcome' = "ok"
    /\ UNCHANGED << isPaused, timerRef, chunks, mediaState, tracksLive >>
    /\ UNCHANGED << consultations, medical_notes, route, consultation, medicalNote,
                    isProcessing, activeTab, isRecording, transcribing, htcPending,
                    savePending, completePending >>
    /\ UNCHANGED << user, offPageVars >>

\* PauseRecording that empties the chunk buffer
PauseRecording_DropsChunks ==
    /\ RecorderMounted
    /\ isRecording
    /\ ~isPaused
    /\ mediaState' = "paused"
    /\ isPaused' = TRUE
    /\ timerRef' = FALSE
    /\ outcome' = "ok"
    /\ chunks' = <<>>
    /\ UNCHANGED << recordingTime, tracksLive >>
    /\ UNCHANGED << consultations, medical_notes, route, consultation, medicalNote,
                    isProcessing, activeTab, isRecording, transcribing, htcPending,
                    savePending, completePending >>
    /\ UNCHANGED << user, offPageVars >>

\* pauseRecording (the Pause button shows while recording and not paused)
PauseRecording ==
    /\ RecorderMounted
    /\ isRecording
    /\ ~isPaused
    /\ mediaState' = "paused"
    /\ isPaused' = TRUE
    /\ timerRef' = FALSE
    /\ outcome' = "ok"
    /\ UNCHANGED << recordingTime, chunks, tracksLive >>
    /\ UNCHANGED << consultations, medical_notes, route, consultation, medicalNote,
                    isProcessing, activeTab, isRecording, transcribing, htcPending,
                    savePending, completePending >>
    /\ UNCHANGED << user, offPageVars >>

\* resumeRecording (the Resume button shows while recording and paused)
ResumeRecording ==
    /\ RecorderMounted
    /\ isRecording
    /\ isPaused
    /\ mediaState' = "recording"
    /\ isPaused' = FALSE
    /\ timerRef' = TRUE
    /\ outcome' = "ok"
    /\ UNCHANGED << recordingTime, chunks, tracksLive >>
    /\ UNCHANGED << consultations, medical_notes, route, consultation, medicalNote,
                    isProcessing, activeTab, isRecording, transcribing, htcPending,
                    savePending, completePending >>
    /\ UNCHANGED << user, offPageVars >>

\* StopRecording that does not stop the tracks of the stream
StopRecording_TracksLeftLive(data) ==
    /\ RecorderMounted
    /\ isRecording
    /\ InFlight < MaxInFlight
    /\ Len(medical_notes) + NotesInFlight < MaxNotes
    /\ mediaState' = "inactive"
    /\ isRecording' = FALSE
    /\ isPaused' = FALSE
    /\ timerRef' = FALSE
    /\ chunks' = IF Len(data) > 0 THEN Append(chunks, data) ELSE chunks
    /\ transcribing' = Put(transcribing,
                           [cid |-> route, live |-> TRUE, blob |-> Blob(chunks')])
    /\ tracksLive' = tracksLive
    /\ recordingTime' = recordingTime
    /\ outcome' = "ok"
    /\ UNCHANGED << consultations, medical_notes, route, consultation, medicalNote,
                    isProcessing, activeTab, htcPending, savePending, completePending >>
    /\ UNCHANGED << user, offPageVars >>

\* stopRecording: mediaRecorder.stop() delivers the data gathered since the
\* last chunk (ondataavailable), then onstop builds the blob, calls
\* transcribeAudio, which posts it to the backend function, and stops the
\* tracks of the stream
StopRecording(data) ==
    /\ RecorderMounted
    /\ isRecording
    /\ InFlight < MaxInFlight
    /\ Len(medical_notes) + NotesInFlight < MaxNotes
    /\ mediaState' = "inactive"
    /\ isRecording' = FALSE
    /\ isPaused' = FALSE
    /\ timerRef' = FALSE
    /\ chunks' = IF Len(data) > 0 THEN Append(chunks, data) ELSE chunks
    /\ transcribing' = Put(transcribing,
                           [cid |-> route, live |-> TRUE, blob |-> Blob(chunks')])
    /\ tracksLive' = FALSE
    /\ recordingTime' = recordingTime
    /\ outcome' = "ok"
    /\ UNCHANGED << consultations, medical_notes, route, consultation, medicalNote,
                    isProcessing, activeTab, htcPending, savePending, completePending >>
    /\ UNCHANGED << user, offPageVars >>

\* what the backend function answers: a failure (non-2xx, or a body with
\* an error field: vendor error, poll timeout), or a body with the text
BackendAnswers == { [ok |-> FALSE, text |-> <<>>] } \cup { [ok |-> TRUE, text |-> t] : t \in Texts }

\* DeliveredTranscript passing the backend's text on as it came
DeliveredTranscript_AsReturned(text) == text

\* the transcript transcribeWithAssemblyAIStreaming hands to
\* onTranscriptionComplete for a successful answer: data.text || '',
\* replaced by the no-speech placeholder when it is empty after trim()
DeliveredTranscript(text) == IF IsBlank(text) THEN NoSpeechText ELSE text

\* the answer to a request arrives: transcribeWithAssemblyAIStreaming throws
\* on a failure and transcribeAudio catches it (toast, nothing else); else
\* onTranscriptionComplete runs up to its await
TranscriptionAnswered(call, answer) ==
    /\ BagIn(call, transcribing)
    /\ transcribing' = Take(transcribing, call)
    /\ IF answer.ok
       THEN /\ HtcCalled(call.cid, call.live,
                         DeliveredTranscript(answer.text))
            /\ outcome' = "ok"
       ELSE /\ UNCHANGED << htcPending, isProcessing >>
            /\ outcome' = "toast_error"
    /\ UNCHANGED << consultations, medical_notes, route, consultation, medicalNote,
                    activeTab, isRecording, savePending, completePending >>
    /\ UNCHANGED << recorderVars, user, offPageVars >>

\* ------------------------------------------------------- ConsultationPage
\* Downloaded triggering the download whether or not the upsert succeeded
Downloaded_AlsoOnFailure(transcript, ok) ==
    IF ~IsBlank(transcript) THEN << transcript >> ELSE <<>>

\* the files handleTranscriptionComplete makes the browser download after
\* the upsert has answered: new Blob([simplified]), a.click(), in the
\* branch of a non-empty transcript, after "if (error) throw error"
Downloaded(transcript, ok) ==
    IF ok /\ ~IsBlank(transcript) THEN << transcript >> ELSE <<>>

\* TranscriptionCompleteDone keeping a note the page already shows
TranscriptionCompleteDone_KeepsNote(call, ok) ==
    /\ BagIn(call, htcPending)
    /\ htcPending' = Take(htcPending, call)
    /\ downloads' = downloads \o Downloaded(call.transcript, ok)
    /\ LET rows == Upsert(medical_notes, HtcPayload(call.cid, call.transcript))
       IN  IF ok
           THEN /\ medical_notes' = rows
                /\ IF call.live
                   THEN /\ medicalNote' = IF medicalNote = <<>>
                                          THEN << rows[Len(rows)] >>
                                          ELSE medicalNote
                        /\ activeTab' = "notes"
                        /\ isRecording' = FALSE
                        /\ RecorderReset
                        /\ isProcessing' = FALSE
                   ELSE UNCHANGED << medicalNote, activeTab, isRecording,
                                     isProcessing, recorderVars >>
                /\ outcome' = "ok"
           ELSE /\ isProcessing' = IF call.live THEN FALSE ELSE isProcessing
                /\ outcome' = "toast_error"
                /\ UNCHANGED << medical_notes, medicalNote, activeTab, isRecording,
                                recorderVars >>
    /\ UNCHANGED << consultations, route, consultation, transcribing, savePending,
                    completePending >>
    /\ UNCHANGED << user, serverVars, gatewayVars, captureVars >>

\* the upsert of a call answers; then catch (toast) and finally
TranscriptionCompleteDone(call, ok) ==
    /\ BagIn(call, htcPending)
    /\ htcPending' = Take(htcPending, call)
    /\ downloads' = downloads \o Downloaded(call.transcript, ok)
    /\ LET rows == Upsert(medical_notes, HtcPayload(call.cid, call.transcript))
       IN  IF ok
           THEN /\ medical_notes' = rows
                /\ IF call.live
                   THEN /\ medicalNote' = << rows[Len(rows)] >>
                        /\ activeTab' = "notes"
                        /\ isRecording' = FALSE
                        /\ RecorderReset
                        /\ isProcessing' = FALSE
                   ELSE UNCHANGED << medicalNote, activeTab, isRecording,
                                     isProcessing, recorderVars >>
                /\ outcome' = "ok"
           ELSE /\ isProcessing' = IF call.live THEN FALSE ELSE isProcessing
                /\ outcome' = "toast_error"
                /\ UNCHANGED << medical_notes, medicalNote, activeTab, isRecording,
                                recorderVars >>
    /\ UNCHANGED << consultations, route, consultation, transcribing, savePending,
                    completePending >>
    /\ UNCHANGED << user, serverVars, gatewayVars, captureVars >>

\* the note object SOAPEditor passes to onSave: the note it was given, with
\* the four SOAP fields as the practitioner left them
EditorNotes(note) ==
    { [note EXCEPT !.subjective = e, !.objective = e, !.assessment = e, !.plan = e] :
        e \in EditTexts }

\* .update({subjective, objective, assessment, plan, is_reviewed: true}).eq('id', note.id)
UpdateNote(rows, note) ==
    [ i \in 1..Len(rows) |->
        IF rows[i].id = note.id
        THEN [rows[i] EXCEPT !.subjective = note.subjective,
                             !.objective = note.objective,
                             !.assessment = note.assessment,
                             !.plan = note.plan,
                             !.is_reviewed = TRUE]
        ELSE rows[i] ]

\* prev => prev ? { ...prev, ...note, is_reviewed: true } : null
MergeNote(prev, note) ==
    IF prev = <<>>
    THEN <<>>
    ELSE << [ f \in (DOMAIN prev[1]) \cup (DOMAIN note) |->
                IF f = "is_reviewed" THEN TRUE
                ELSE IF f \in DOMAIN note THEN note[f] ELSE prev[1][f] ] >>

\* handleSaveNote up to the await of the update
SaveNoteCalled(note) ==
    /\ route # 0
    /\ activeTab = "notes"
    /\ medicalNote # <<>>
    /\ note \in EditorNotes(medicalNote[1])
    /\ InFlight < MaxInFlight
    /\ savePending' = Put(savePending, [live |-> TRUE, note |-> note])
    /\ outcome' = "ok"
    /\ UNCHANGED << consultations, medical_notes, route, consultation, medicalNote,
                    isProcessing, activeTab, isRecording, transcribing,
                    htcPending, completePending >>
    /\ UNCHANGED << recorderVars, user, offPageVars >>

\* SaveNoteDone that marks the page's note reviewed before the error is looked at
SaveNoteDone_MergesOnError(call, ok) ==
    /\ BagIn(call, savePending)
    /\ savePending' = Take(savePending, call)
    /\ IF ok
           THEN /\ medical_notes' = UpdateNote(medical_notes, call.note)
                /\ medicalNote' = IF call.live THEN MergeNote(medicalNote, call.note)
                                  ELSE medicalNote
                /\ outcome' = "ok"
           ELSE /\ medical_notes' = medical_notes
                /\ medicalNote' = IF call.live THEN MergeNote(medicalNote, call.note)
                                  ELSE medicalNote
                /\ outcome' = "throw"
    /\ UNCHANGED << consultations, route, consultation, isProcessing, activeTab,
                    isRecording, transcribing, htcPending, completePending >>
    /\ UNCHANGED << recorderVars, user, offPageVars >>

\* the update of a call answers: an error is thrown to the caller
SaveNoteDone(call, ok) ==
    /\ BagIn(call, savePending)
    /\ savePending' = Take(savePending, call)
    /\ IF ok
           THEN /\ medical_notes' = UpdateNote(medical_notes, call.note)
                /\ medicalNote' = IF call.live THEN MergeNote(medicalNote, call.note)
                                  ELSE medicalNote
                /\ outcome' = "ok"
           ELSE /\ UNCHANGED << medical_notes, medicalNote >>
                /\ outcome' = "throw"
    /\ UNCHANGED << consultations, route, consultation, isProcessing, activeTab,
                    isRecording, transcribing, htcPending, completePending >>
    /\ UNCHANGED << recorderVars, user, offPageVars >>

\* CanComplete without the reviewed check
CanComplete_Unreviewed ==
    /\ consultation # <<>>
    /\ consultation[1].status = "in_progress"
    /\ medicalNote # <<>>

\* CanComplete without the status check
CanComplete_AnyStatus ==
    /\ consultation # <<>>
    /\ medicalNote # <<>>
    /\ medicalNote[1].is_reviewed

\* the "Complete Consultation" button is rendered only under this condition
CanComplete ==
    /\ consultation # <<>>
    /\ consultation[1].status = "in_progress"
    /\ medicalNote # <<>>
    /\ medicalNote[1].is_reviewed

\* StatusUpdate toggling the status instead of setting it
StatusUpdate_Toggle(row) ==
    [row EXCEPT !.status = IF @ = "completed" THEN "in_progress" ELSE "completed"]

\* { status: 'completed' } applied to a row / to the page's consultation
StatusUpdate(row) == [row EXCEPT !.status = "completed"]

\* handleCompleteConsultation up to the await of the update
CompleteConsultationCalled ==
    /\ route # 0
    /\ CanComplete
    /\ InFlight < MaxInFlight
    /\ completePending' = Put(completePending, [cid |-> route, live |-> TRUE])
    /\ outcome' = "ok"
    /\ UNCHANGED << consultations, medical_notes, route, consultation, medicalNote,
                    isProcessing, activeTab, isRecording, transcribing,
                    htcPending, savePending >>
    /\ UNCHANGED << recorderVars, user, offPageVars >>

\* the update of a call answers; then the toast, or catch (toast)
CompleteConsultationDone(call, ok) ==
    /\ BagIn(call, completePending)
    /\ completePending' = Take(completePending, call)
    /\ IF ok
           THEN /\ consultations' =
                      [consultations EXCEPT ![call.cid] = StatusUpdate(@)]
                /\ consultation' = IF call.live /\ consultation # <<>>
                                   THEN << StatusUpdate(consultation[1]) >>
                                   ELSE consultation
                /\ outcome' = "ok"
           ELSE /\ UNCHANGED << consultations, consultation >>
                /\ outcome' = "toast_error"
    /\ UNCHANGED << medical_notes, route, medicalNote, isProcessing, activeTab,
                    isRecording, transcribing, htcPending, savePending >>
    /\ UNCHANGED << recorderVars, user, offPageVars >>

\* ------------------------------------------------------------ specification
Next ==
    \/ \E ok, consOk, noteOk \in BOOLEAN :
          CreateConsultation(SomePatient, <<>>, ok, consOk, noteOk)
    \/ \E c \in 1..MaxCons, consOk, noteOk \in BOOLEAN : ViewConsultation(c, consOk, noteOk)
    \/ BackToDashboard
    \/ \E tab \in {"recording", "notes"} : SwitchTab(tab)
    \/ \E granted \in BOOLEAN : StartRecording(granted)
    \/ StopRecording(<<>>)
    \/ \E call \in BagToSet(transcribing), answer \in BackendAnswers :
          TranscriptionAnswered(call, answer)
    \/ \E call \in BagToSet(htcPending), ok \in BOOLEAN :
          TranscriptionCompleteDone(call, ok)
    \/ \E note \in (IF medicalNote = <<>> THEN {} ELSE EditorNotes(medicalNote[1])) :
          SaveNoteCalled(note)
    \/ \E call \in BagToSet(savePending), ok \in BOOLEAN : SaveNoteDone(call, ok)
    \/ CompleteConsultationCalled
    \/ \E call \in BagToSet(completePending), ok \in BOOLEAN :
          CompleteConsultationDone(call, ok)

\* the application as wired: handleTranscriptionComplete is called by the
\* AudioRecorder only
Spec == Init /\ [][Next]_vars

\* handleTranscriptionComplete called with any transcript (the handler's own
\* contract: onTranscriptionComplete: (transcript: string, audioBlob) => void)
HandleTranscriptionComplete(transcript) ==
    /\ route # 0
    /\ InFlight < MaxInFlight
    /\ Len(medical_notes) + NotesInFlight < MaxNotes
    /\ HtcCalled(route, TRUE, transcript)
    /\ outcome' = "ok"
    /\ UNCHANGED << consultations, medical_notes, route, consultation, medicalNote,
                    activeTab, isRecording, transcribing, savePending,
                    completePending >>
    /\ UNCHANGED << recorderVars, user, offPageVars >>

NextHandler ==
    \/ Next
    \/ \E transcript \in Texts : HandleTranscriptionComplete(transcript)

SpecHandler == Init /\ [][NextHandler]_vars

\* ---------------------------------------------------------- recorder in use
NextRecorder ==
    \/ \E c \in 1..MaxCons, consOk, noteOk \in BOOLEAN : ViewConsultation(c, consOk, noteOk)
    \/ BackToDashboard
    \/ \E tab \in {"recording", "notes"} : SwitchTab(tab)
    \/ \E granted \in BOOLEAN : StartRecording(granted)
    \/ \E data \in ChunkData : DataAvailable(data)
    \/ Tick
    \/ PauseRecording
    \/ ResumeRecording
    \/ \E data \in ChunkData : StopRecording(data)
    \/ \E call \in BagToSet(transcribing), answer \in BackendAnswers :
          TranscriptionAnswered(call, answer)
    \/ \E call \in BagToSet(htcPending), ok \in BOOLEAN :
          TranscriptionCompleteDone(call, ok)

\* the consultation page with the recorder's timer, chunks, pause and resume
SpecRecorder == Init /\ [][NextRecorder]_vars

\* ------------------------------------- recorder, awaits and events apart
\* The same AudioRecorder with startRecording split at its await and
\* MediaRecorder.stop() split from the events it queues.  Every MediaRecorder
\* ever created is kept in recorders with its own state and stream, so
\* mediaState and tracksLive (the single recorder of the steps above) are not
\* used here.  A chunk carries the number of the recorder that produced it.
MaxRecorders == 2

\* the bytes recorder k delivers in one dataavailable event
ChunkOf(k) == { <<>>, << k >> }

\* startTimer: a previous interval is not cleared, only its handle is replaced
StartTimer ==
    /\ lostTimers' = lostTimers + (IF timerRef THEN 1 ELSE 0)
    /\ timerRef' = TRUE

\* the variables no step of the recorder touches
captureFrame == << consultations, medical_notes, route, consultation, medicalNote,
                   isProcessing, activeTab, transcribing, htcPending, savePending,
                   completePending, mediaState, tracksLive, user, serverVars,
                   gatewayVars, downloads >>

\* startRecording up to its await: the button shows while !isRecording and is
\* disabled only while isProcessing
StartCalled ==
    /\ RecorderMounted
    /\ ~isRecording
    /\ ~isProcessing
    /\ Len(recorders) + startPending < MaxRecorders
    /\ startPending' = startPending + 1
    /\ outcome' = "ok"
    /\ UNCHANGED << isRecording, isPaused, recordingTime, timerRef, chunks,
                    recorders, mediaRef, lostTimers, audioObjects, captureFrame >>

\* getUserMedia settles for one waiting call: with a stream the rest of the
\* try block runs, without one the catch
MicrophoneAnswered(granted) ==
    /\ RecorderMounted
    /\ startPending > 0
    /\ startPending' = startPending - 1
    /\ IF granted
       THEN /\ recorders' = Append(recorders, [state |-> "recording", tracks |-> TRUE])
            /\ mediaRef' = Len(recorders) + 1
            /\ chunks' = <<>>
            /\ isRecording' = TRUE
            /\ recordingTime' = 0
            /\ StartTimer
            /\ outcome' = "ok"
            /\ UNCHANGED isPaused
       ELSE /\ outcome' = "toast_error"
            /\ UNCHANGED << recorders, mediaRef, chunks, isRecording, recordingTime,
                            timerRef, lostTimers, isPaused >>
    /\ UNCHANGED << audioObjects, captureFrame >>

\* ondataavailable of recorder k, every second while it records: the handler
\* pushes into whatever chunksRef.current is at that moment
ChunkDelivered(k, data) ==
    /\ RecorderMounted
    /\ k \in 1 .. Len(recorders)
    /\ recorders[k].state = "recording"
    /\ Len(chunks) < MaxChunks
    /\ chunks' = IF Len(data) > 0 THEN Append(chunks, data) ELSE chunks
    /\ outcome' = "ok"
    /\ UNCHANGED << isRecording, isPaused, recordingTime, timerRef, startPending,
                    recorders, mediaRef, lostTimers, audioObjects, captureFrame >>

\* one of the running intervals fires: setRecordingTime(prev => prev + 1)
IntervalFired ==
    /\ RecorderMounted
    /\ timerRef \/ lostTimers > 0
    /\ recordingTime < MaxTime
    /\ recordingTime' = recordingTime + 1
    /\ outcome' = "ok"
    /\ UNCHANGED << isRecording, isPaused, timerRef, chunks, startPending,
                    recorders, mediaRef, lostTimers, audioObjects, captureFrame >>

\* pauseRecording: the button shows while isRecording && !isPaused
PauseClicked ==
    /\ RecorderMounted
    /\ isRecording
    /\ ~isPaused
    /\ mediaRef # 0
    /\ recorders[mediaRef].state \in { "recording", "paused" }
    /\ recorders' = [recorders EXCEPT ![mediaRef].state = "paused"]
    /\ isPaused' = TRUE
    /\ timerRef' = FALSE
    /\ outcome' = "ok"
    /\ UNCHANGED << isRecording, recordingTime, chunks, startPending, mediaRef,
                    lostTimers, audioObjects, captureFrame >>

\* resumeRecording: the button shows while isRecording && isPaused
ResumeClicked ==
    /\ RecorderMounted
    /\ isRecording
    /\ isPaused
    /\ mediaRef # 0
    /\ recorders[mediaRef].state \in { "recording", "paused" }
    /\ recorders' = [recorders EXCEPT ![mediaRef].state = "recording"]
    /\ isPaused' = FALSE
    /\ StartTimer
    /\ outcome' = "ok"
    /\ UNCHANGED << isRecording, recordingTime, chunks, startPending, mediaRef,
                    audioObjects, captureFrame >>

\* stopRecording: the button shows while isRecording; MediaRecorder.stop()
\* makes the recorder inactive and queues its last dataavailable and its stop
StopClicked ==
    /\ RecorderMounted
    /\ isRecording
    /\ mediaRef # 0
    /\ recorders[mediaRef].state \in { "recording", "paused" }
    /\ recorders' = [recorders EXCEPT ![mediaRef].state = "stopping"]
    /\ isRecording' = FALSE
    /\ isPaused' = FALSE
    /\ timerRef' = FALSE
    /\ outcome' = "ok"
    /\ UNCHANGED << recordingTime, chunks, startPending, mediaRef, lostTimers,
                    audioObjects, captureFrame >>

\* the events stop() queued for recorder k: the last dataavailable, then
\* onstop (Blob of chunksRef.current, transcribeAudio, tracks of its stream)
StopEvents(k, data) ==
    /\ RecorderMounted
    /\ k \in 1 .. Len(recorders)
    /\ recorders[k].state = "stopping"
    /\ chunks' = IF Len(data) > 0 THEN Append(chunks, data) ELSE chunks
    /\ audioObjects' = Append(audioObjects, [session |-> k, blob |-> Blob(chunks')])
    /\ recorders' = [recorders EXCEPT ![k] = [state |-> "inactive", tracks |-> FALSE]]
    /\ outcome' = "ok"
    /\ UNCHANGED << isRecording, isPaused, recordingTime, timerRef, startPending,
                    mediaRef, lostTimers, captureFrame >>

NextCapture ==
    \/ \E ok, consOk, noteOk \in BOOLEAN :
          CreateConsultation(SomePatient, <<>>, ok, consOk, noteOk)
    \/ StartCalled
    \/ \E granted \in BOOLEAN : MicrophoneAnswered(granted)
    \/ \E k \in 1 .. MaxRecorders : \E data \in ChunkOf(k) : ChunkDelivered(k, data)
    \/ IntervalFired
    \/ PauseClicked
    \/ ResumeClicked
    \/ StopClicked
    \/ \E k \in 1 .. MaxRecorders : \E data \in ChunkOf(k) : StopEvents(k, data)

\* one consultation page, its recorder followed await by await
SpecCapture == Init /\ [][NextCapture]_vars

\* -------------------------------------------------- NewConsultationDialog
\* the session changes (sign-in, sign-out, expiry) while the dashboard shows
SessionChanged(u) ==
    /\ route = 0
    /\ u # user
    /\ user' = u
    /\ outcome' = "ok"
    /\ UNCHANGED << consultations, medical_notes, route, consultation, medicalNote,
                    isProcessing, activeTab, isRecording, transcribing, htcPending,
                    savePending, completePending >>
    /\ UNCHANGED << recorderVars, offPageVars >>

NextCreate ==
    \/ \E name \in PatientNames, pid \in PatientIds, ok, consOk, noteOk \in BOOLEAN :
          CreateConsultation(name, pid, ok, consOk, noteOk)
    \/ \E c \in 1..MaxCons, consOk, noteOk \in BOOLEAN : ViewConsultation(c, consOk, noteOk)
    \/ BackToDashboard
    \/ \E u \in Users : SessionChanged(u)

\* the dashboard: the dialog with anything typed into it, by anybody
SpecCreate == Init /\ [][NextCreate]_vars

\* ------------------------------------ transcription functions (poll loop)
\* supabase/functions/transcribe-assemblyai and supabase/functions/transcribe-audio
PollFns == { "transcribe-assemblyai", "transcribe-audio" }

\* const maxAttempts
MaxAttemptsAssemblyAI == 30
MaxAttemptsAudio == 60
MaxAttempts(fn) == IF fn = "transcribe-assemblyai" THEN MaxAttemptsAssemblyAI
                   ELSE MaxAttemptsAudio

\* statusData.status of the vendor
VendorStatuses == { "queued", "processing", "completed", "error" }

\* the Response of the catch block, and of a completed transcript
ErrorResponse(msg) == << [status |-> 500, error |-> msg] >>
TextResponse(text) == << [status |-> 200, text |-> text] >>

\* the while condition with the off-by-one of a <= comparison
LoopContinues_Inclusive(fn, n) == n <= MaxAttempts(fn)

\* while (attempts < maxAttempts)
LoopContinues(fn, n) == n < MaxAttempts(fn)

\* the request arrives: body and API key are checked, the upload is sent
PollInvoke(fn, hasAudio, hasKey) ==
    /\ pollPc \in { "idle", "done" }
    /\ pollFn' = fn
    /\ pollKey' = hasKey
    /\ attempts' = 0
    /\ statusChecks' = 0
    /\ waits' = 0
    /\ statusData' = <<>>
    /\ IF ~hasAudio
       THEN pollPc' = "done" /\ pollResponse' = ErrorResponse("audio is required")
       ELSE IF ~hasKey
       THEN pollPc' = "done" /\ pollResponse' = ErrorResponse("ASSEMBLYAI_API_KEY is not set")
       ELSE pollPc' = "upload" /\ pollResponse' = <<>>
    /\ UNCHANGED << browserVars, genVars, cleanupVars >>

\* the upload answers; on success the transcription job is requested
UploadAnswered(ok) ==
    /\ pollPc = "upload"
    /\ IF ok
       THEN pollPc' = "create" /\ pollResponse' = pollResponse
       ELSE pollPc' = "done" /\ pollResponse' = ErrorResponse("AssemblyAI upload error")
    /\ UNCHANGED << pollFn, pollKey, attempts, statusChecks, waits, statusData >>
    /\ UNCHANGED << browserVars, genVars, cleanupVars >>

\* the job request answers; on success the poll loop is entered
JobAnswered(ok) ==
    /\ pollPc = "create"
    /\ IF ok
       THEN pollPc' = "wait" /\ pollResponse' = pollResponse
       ELSE pollPc' = "done"
            /\ pollResponse' = ErrorResponse("AssemblyAI transcription error")
    /\ attempts' = 0
    /\ UNCHANGED << pollFn, pollKey, statusChecks, waits, statusData >>
    /\ UNCHANGED << browserVars, genVars, cleanupVars >>

\* an iteration of the poll loop begins: the one-second timer has fired and
\* the status request is sent
WaitElapsed ==
    /\ pollPc = "wait"
    /\ pollPc' = "poll"
    /\ waits' = waits + 1
    /\ UNCHANGED << pollFn, pollKey, attempts, statusChecks, statusData, pollResponse >>
    /\ UNCHANGED << browserVars, genVars, cleanupVars >>

\* what the function reads of the answer to a status request: whether it is
\* ok, then statusData.status, and statusData.text of a completed transcript
StatusBody(httpOk, status, text) ==
    IF ~httpOk THEN [ok |-> FALSE, status |-> "", text |-> <<>>]
    ELSE [ok |-> TRUE, status |-> status,
          text |-> IF status = "completed" THEN text ELSE <<>>]

\* StatusAnswered that polls on when the vendor reports an error
StatusAnswered_PollsOnAfterError(httpOk, status, text) ==
    /\ pollPc = "poll"
    /\ statusChecks' = statusChecks + 1
    /\ statusData' = << StatusBody(httpOk, status, text) >>
    /\ IF ~httpOk
       THEN /\ pollPc' = "done"
            /\ pollResponse' = ErrorResponse("Failed to check transcription status")
            /\ attempts' = attempts
       ELSE IF status = "completed"
       THEN /\ pollPc' = "done"
            /\ pollResponse' = TextResponse(text)
            /\ attempts' = attempts
       ELSE /\ attempts' = attempts + 1
            /\ IF LoopContinues(pollFn, attempts')
               THEN pollPc' = "wait" /\ pollResponse' = pollResponse
               ELSE pollPc' = "done"
                    /\ pollResponse' = ErrorResponse("Transcription timeout")
    /\ UNCHANGED << pollFn, pollKey, waits >>
    /\ UNCHANGED << browserVars, genVars, cleanupVars >>

\* the rest of the iteration: the status request answers and the answer is
\* acted on; then the loop condition, and the throw after the loop
StatusAnswered(httpOk, status, text) ==
    /\ pollPc = "poll"
    /\ statusChecks' = statusChecks + 1
    /\ statusData' = << StatusBody(httpOk, status, text) >>
    /\ IF ~httpOk
       THEN /\ pollPc' = "done"
            /\ pollResponse' = ErrorResponse("Failed to check transcription status")
            /\ attempts' = attempts
       ELSE IF status = "completed"
       THEN /\ pollPc' = "done"
            /\ pollResponse' = TextResponse(text)
            /\ attempts' = attempts
       ELSE IF status = "error"
       THEN /\ pollPc' = "done"
            /\ pollResponse' = ErrorResponse("Transcription failed")
            /\ attempts' = attempts
       ELSE /\ attempts' = attempts + 1
            /\ IF LoopContinues(pollFn, attempts')
               THEN pollPc' = "wait" /\ pollResponse' = pollResponse
               ELSE pollPc' = "done"
                    /\ pollResponse' = ErrorResponse("Transcription timeout")
    /\ UNCHANGED << pollFn, pollKey, waits >>
    /\ UNCHANGED << browserVars, genVars, cleanupVars >>

PollStep ==
    \/ WaitElapsed
    \/ \E httpOk \in BOOLEAN, status \in VendorStatuses, text \in Texts :
          StatusAnswered(httpOk, status, text)

NextPoll ==
    \/ \E fn \in PollFns, hasAudio, hasKey \in BOOLEAN : PollInvoke(fn, hasAudio, hasKey)
    \/ \E ok \in BOOLEAN : UploadAnswered(ok)
    \/ \E ok \in BOOLEAN : JobAnswered(ok)
    \/ PollStep

\* a transcription function serving requests
SpecPoll == Init /\ [][NextPoll]_vars

\* the timer of an iteration fires and the vendor answers every status request
SpecPollFair == SpecPoll /\ WF_vars(PollStep)


\* --------------------------------------------- cleanup_expired_recordings()
MaxRecordings == 3
MaxClock == 2
MaxRuns == 2

ExpiryTimes == 0 .. MaxClock

\* a row of public.audio_recordings (the columns the function reads)
RecordingRow(i, e) == [ id |-> i, consultation_id |-> 1, expires_at |-> e ]

\* the tables of at most MaxRecordings rows, one row per id
RecordingTables ==
    { { RecordingRow(i, f[i]) : i \in D } :
        f \in [ 1 .. MaxRecordings -> ExpiryTimes ], D \in SUBSET (1 .. MaxRecordings) }

\* WHERE expires_at <= now()
Expired_Inclusive(r, now) == r.expires_at <= now

\* WHERE expires_at < now()
Expired(r, now) == r.expires_at < now

\* The rows the DELETE of a caller can see: row level security is enabled on
\* the table and no policy is written for DELETE, so only a role that
\* bypasses row level security (the owner, the service role) sees any.
DeletableBy(bypassRls, table) == IF bypassRls THEN table ELSE {}

InitCleanup ==
    /\ PageInit
    /\ BackendIdle
    /\ audio_recordings \in RecordingTables
    /\ clock = 0
    /\ cleanupRuns = <<>>

\* the function is called: now() is fixed for the transaction and the DELETE
\* takes its snapshot of the rows that match
CleanupCalled(bypassRls) ==
    /\ Len(cleanupRuns) < MaxRuns
    /\ cleanupRuns' = Append(cleanupRuns,
          [ now |-> clock,
            bypassRls |-> bypassRls,
            pc |-> "delete",
            todo |-> { r \in DeletableBy(bypassRls, audio_recordings) : Expired(r, clock) },
            deleted |-> {} ])
    /\ UNCHANGED << audio_recordings, clock >>
    /\ UNCHANGED << browserVars, pollVars, genVars >>

\* the DELETE reaches one row of its snapshot: a row a concurrent run has
\* already deleted is skipped
CleanupDeleteRow(k, r) ==
    /\ k \in 1 .. Len(cleanupRuns)
    /\ cleanupRuns[k].pc = "delete"
    /\ r \in cleanupRuns[k].todo
    /\ audio_recordings' = audio_recordings \ { r }
    /\ cleanupRuns' = [ cleanupRuns EXCEPT
          ![k].todo = @ \ { r },
          ![k].deleted = IF r \in audio_recordings THEN @ \cup { r } ELSE @ ]
    /\ UNCHANGED clock
    /\ UNCHANGED << browserVars, pollVars, genVars >>

\* the DELETE has gone through its snapshot: the function returns void
CleanupReturn(k) ==
    /\ k \in 1 .. Len(cleanupRuns)
    /\ cleanupRuns[k].pc = "delete"
    /\ cleanupRuns[k].todo = {}
    /\ cleanupRuns' = [ cleanupRuns EXCEPT ![k].pc = "done" ]
    /\ UNCHANGED << audio_recordings, clock >>
    /\ UNCHANGED << browserVars, pollVars, genVars >>

\* time passes
ClockTick ==
    /\ clock < MaxClock
    /\ clock' = clock + 1
    /\ UNCHANGED << audio_recordings, cleanupRuns >>
    /\ UNCHANGED << browserVars, pollVars, genVars >>

NextCleanup ==
    \/ \E bypassRls \in BOOLEAN : CleanupCalled(bypassRls)
    \/ \E k \in 1 .. MaxRuns : \E r \in UNION RecordingTables : CleanupDeleteRow(k, r)
    \/ \E k \in 1 .. MaxRuns : CleanupReturn(k)
    \/ ClockTick

SpecCleanup == InitCleanup /\ [][NextCleanup]_vars

\* ------------------------------------------------ note-generation functions
\* supabase/functions/generate-soap-note (Gemini client, with a fallback
\* model) and the other variants of the function in the repository: Gemini
\* client without the fallback model, chat-completions endpoint, and the one
\* that calls no vendor
GenFns == { "generate-soap-note", "generate-soap-note-gemini",
            "generate-soap-note-openai", "generate-soap-note-basic" }
GeminiFns == { "generate-soap-note", "generate-soap-note-gemini" }

\* the text of a vendor reply: the JSON asked for, prose, a truncated JSON
NoteJsonText == << "{", "soap-note", "}" >>
ReplyTexts == { NoteJsonText, << "Here", "is", "the", "note" >>, << "{", "soap-note" >> }

\* what the vendor answers to a generation request: a failure (model not
\* found, or any other), or a reply with a text
GenResults ==
    { [kind |-> "error", notFound |-> b] : b \in BOOLEAN }
    \cup { [kind |-> "text", text |-> t] : t \in ReplyTexts }

\* JSON.parse succeeds on a text that is a JSON value
JsonParses(text) == text # <<>> /\ Head(text) = "{" /\ text[Len(text)] = "}"

\* JSON.parse of the JSON the prompt asks for
JsonParse(text) ==
    [ subjective |-> << "S" >>, objective |-> << "O" >>,
      assessment |-> << "A" >>, plan |-> << "P" >> ]

UnparsedText == << "Unable to parse structured data" >>

\* the fallback object of the inner catch (parseError)
FallbackNote(content) ==
    [ subjective |-> content,
      objective |-> UnparsedText,
      assessment |-> UnparsedText,
      plan |-> UnparsedText,
      extracted_entities |-> {} ]

\* the object of the variant that calls no vendor
BasicNote(transcript) ==
    [ subjective |-> transcript,
      objective |-> <<>>,
      assessment |-> <<>>,
      plan |-> <<>>,
      extracted_entities |-> {} ]

JsonResponse(body) == << [status |-> 200, body |-> body] >>

\* the Response for a reply text: JSON.parse, and what follows its failure
\* (the inner catch of the chat-completions variant; the outer catch of the
\* Gemini variant, which has no inner one)
ParsedResponse(fn, text) ==
    IF JsonParses(text)
    THEN JsonResponse(JsonParse(text))
    ELSE IF fn = "generate-soap-note-openai"
    THEN JsonResponse(FallbackNote(text))
    ELSE ErrorResponse("Unexpected token in JSON")

\* the request arrives: body (and API key) are checked, the generation
\* request is sent
GenInvoke(fn, transcript, hasKey) ==
    /\ genPc \in { "idle", "done" }
    /\ genFn' = fn
    /\ genKey' = hasKey
    /\ genTranscript' = transcript
    /\ genReply' = <<>>
    /\ IF transcript = <<>>
       THEN /\ genPc' = "done"
            /\ genResponse' = ErrorResponse("transcript is required")
            /\ llmCalls' = 0
       ELSE IF fn = "generate-soap-note-basic"
       THEN /\ genPc' = "done"
            /\ genResponse' = JsonResponse(BasicNote(transcript))
            /\ llmCalls' = 0
       ELSE IF fn \in GeminiFns /\ ~hasKey
       THEN /\ genPc' = "done"
            /\ genResponse' = ErrorResponse("GEMINI_API_KEY is not set")
            /\ llmCalls' = 0
       ELSE /\ genPc' = "generate"
            /\ genResponse' = <<>>
            /\ llmCalls' = 1
    /\ UNCHANGED << browserVars, pollVars, cleanupVars >>

\* generateContent with a fallback model is tried after a model-not-found
\* failure of the first generateContent, when listModels offers a model
RetriesAfter(fn, result, fallbackModel) ==
    /\ fn = "generate-soap-note"
    /\ result.kind = "error"
    /\ result.notFound
    /\ fallbackModel

\* the first generation request answers
GenerateAnswered(result, fallbackModel) ==
    /\ genPc = "generate"
    /\ genReply' = << result >>
    /\ IF result.kind = "text"
       THEN /\ genPc' = "done"
            /\ genResponse' = ParsedResponse(genFn, result.text)
            /\ llmCalls' = llmCalls
       ELSE IF RetriesAfter(genFn, result, fallbackModel)
       THEN /\ genPc' = "retry"
            /\ genResponse' = genResponse
            /\ llmCalls' = llmCalls + 1
       ELSE /\ genPc' = "done"
            /\ genResponse' = ErrorResponse("generation failed")
            /\ llmCalls' = llmCalls
    /\ UNCHANGED << genFn, genKey, genTranscript >>
    /\ UNCHANGED << browserVars, pollVars, cleanupVars >>

\* the generation request to the fallback model answers
RetryAnswered(result) ==
    /\ genPc = "retry"
    /\ genReply' = << result >>
    /\ genPc' = "done"
    /\ genResponse' = IF result.kind = "text"
                      THEN ParsedResponse(genFn, result.text)
                      ELSE ErrorResponse("generation failed")
    /\ UNCHANGED << genFn, genKey, genTranscript, llmCalls >>
    /\ UNCHANGED << browserVars, pollVars, cleanupVars >>

NextGen ==
    \/ \E fn \in GenFns, transcript \in Texts, hasKey \in BOOLEAN :
          GenInvoke(fn, transcript, hasKey)
    \/ \E result \in GenResults, fallbackModel \in BOOLEAN :
          GenerateAnswered(result, fallbackModel)
    \/ \E result \in GenResults : RetryAnswered(result)

\* a note-generation function serving requests
SpecGen == Init /\ [][NextGen]_vars

\* ------------------------------------------------- row level security
\* Requests a signed-in practitioner (or nobody) sends through the database
\* gateway with their own token: the dashboard's query, and any SELECT,
\* INSERT or UPDATE on the three tables, with any values.
MaxRows == 1            \* audio_recordings rows the gateway inserts at most

Doctors == { u[1] : u \in Users \ { <<>> } }

\* the page and its requests, which a gateway request leaves alone
pageSession == << route, consultation, medicalNote, isProcessing, activeTab,
                  isRecording, transcribing, htcPending, savePending,
                  completePending >>

\* a policy that lets any signed-in practitioner through
ConsultationPolicy_AnySignedIn(uid, row) == uid # <<>>

\* USING / WITH CHECK (auth.uid() = doctor_id)
ConsultationPolicy(uid, row) == uid # <<>> /\ uid[1] = row.doctor_id

\* USING / WITH CHECK (auth.uid() IN
\*   (SELECT doctor_id FROM public.consultations WHERE id = consultation_id))
ChildPolicy(uid, cid) ==
    /\ cid \in 1 .. Len(consultations)
    /\ ConsultationPolicy(uid, consultations[cid])

\* a row with the columns of an UPDATE ... SET applied
Patched(row, patch) ==
    [ f \in DOMAIN row |-> IF f \in DOMAIN patch THEN patch[f] ELSE row[f] ]

ConsultationPatches ==
    { [status |-> "completed"] } \cup { [doctor_id |-> d] : d \in Doctors }

NotePatches ==
    { [is_reviewed |-> TRUE] } \cup { [consultation_id |-> c] : c \in 1 .. MaxCons }

\* .from('consultations').select('*').order('consultation_date',
\* { ascending: false }): the rows the SELECT policy lets through, newest first
RECURSIVE SelectConsultations(_, _)
SelectConsultations(uid, c) ==
    IF c = 0 THEN <<>>
    ELSE (IF ConsultationPolicy(uid, consultations[c])
          THEN << [id |-> c] @@ consultations[c] >>
          ELSE <<>>) \o SelectConsultations(uid, c - 1)

\* Dashboard.fetchConsultations: no filter of its own; an error is a toast
FetchConsultations(ok) ==
    /\ route = 0
    /\ dashboardList' = IF ok THEN SelectConsultations(user, Len(consultations))
                        ELSE dashboardList
    /\ outcome' = IF ok THEN "ok" ELSE "toast_error"
    /\ UNCHANGED << consultations, medical_notes, pageSession, user, selected >>
    /\ UNCHANGED << recorderVars, serverVars, sideVars >>

GatewayTables == { "consultations", "medical_notes", "audio_recordings" }

\* SELECT * FROM table, sent with the practitioner's token
GatewaySelect(table) ==
    /\ selected' =
          IF table = "consultations"
          THEN { [table |-> table, row |-> consultations[c]] :
                   c \in { d \in 1 .. Len(consultations) :
                             ConsultationPolicy(user, consultations[d]) } }
          ELSE IF table = "medical_notes"
          THEN { [table |-> table, row |-> medical_notes[i]] :
                   i \in { j \in 1 .. Len(medical_notes) :
                             ChildPolicy(user, medical_notes[j].consultation_id) } }
          ELSE { [table |-> table, row |-> r] :
                   r \in { q \in audio_recordings : ChildPolicy(user, q.consultation_id) } }
    /\ UNCHANGED << consultations, medical_notes, pageSession, outcome, user,
                    dashboardList >>
    /\ UNCHANGED << recorderVars, serverVars, sideVars >>

\* INSERT INTO consultations with any doctor_id
GatewayInsertConsultation(doctor) ==
    /\ Len(consultations) < MaxCons
    /\ LET row == NewConsultationRow(SomePatient, <<>>, doctor)
       IN  consultations' = IF ConsultationPolicy(user, row)
                            THEN Append(consultations, row)
                            ELSE consultations
    /\ UNCHANGED << medical_notes, pageSession, outcome, user, gatewayVars >>
    /\ UNCHANGED << recorderVars, serverVars, sideVars >>

\* UPDATE consultations SET ... WHERE id = c: the row is found under USING,
\* and the new row must pass the same expression (no WITH CHECK is written)
GatewayUpdateConsultation(c, patch) ==
    /\ c \in 1 .. Len(consultations)
    /\ LET row == Patched(consultations[c], patch)
       IN  consultations' =
              IF ConsultationPolicy(user, consultations[c]) /\ ConsultationPolicy(user, row)
              THEN [consultations EXCEPT ![c] = row]
              ELSE consultations
    /\ UNCHANGED << medical_notes, pageSession, outcome, user, gatewayVars >>
    /\ UNCHANGED << recorderVars, serverVars, sideVars >>

\* INSERT INTO medical_notes for any consultation_id
GatewayInsertNote(cid, transcript) ==
    /\ Len(medical_notes) + NotesInFlight < MaxNotes
    /\ medical_notes' = IF ChildPolicy(user, cid)
                        THEN Upsert(medical_notes, HtcPayload(cid, transcript))
                        ELSE medical_notes
    /\ UNCHANGED << consultations, pageSession, outcome, user, gatewayVars >>
    /\ UNCHANGED << recorderVars, serverVars, sideVars >>

\* UPDATE medical_notes SET ... WHERE id = i
GatewayUpdateNote(i, patch) ==
    /\ i \in 1 .. Len(medical_notes)
    /\ LET row == Patched(medical_notes[i], patch)
       IN  medical_notes' =
              IF /\ ChildPolicy(user, medical_notes[i].consultation_id)
                 /\ ChildPolicy(user, row.consultation_id)
              THEN [medical_notes EXCEPT ![i] = row]
              ELSE medical_notes
    /\ UNCHANGED << consultations, pageSession, outcome, user, gatewayVars >>
    /\ UNCHANGED << recorderVars, serverVars, sideVars >>

\* INSERT INTO audio_recordings for any consultation_id
GatewayInsertRecording(cid) ==
    /\ Cardinality(audio_recordings) < MaxRows
    /\ LET row == [ RecordingRow(Cardinality(audio_recordings) + 1, MaxClock)
                      EXCEPT !.consultation_id = cid ]
       IN  audio_recordings' = IF ChildPolicy(user, cid)
                               THEN audio_recordings \cup { row }
                               ELSE audio_recordings
    /\ UNCHANGED << clock, cleanupRuns, pollVars, genVars >>
    /\ UNCHANGED << pageVars, recorderVars, gatewayVars, sideVars >>

NextRls ==
    \/ \E u \in Users : SessionChanged(u)
    \/ \E ok \in BOOLEAN : FetchConsultations(ok)
    \/ \E table \in GatewayTables : GatewaySelect(table)
    \/ \E doctor \in Doctors : GatewayInsertConsultation(doctor)
    \/ \E c \in 1 .. MaxCons, patch \in ConsultationPatches :
          GatewayUpdateConsultation(c, patch)
    \/ \E cid \in 1 .. MaxCons : GatewayInsertNote(cid, << "headache" >>)
    \/ \E i \in 1 .. MaxNotes, patch \in NotePatches : GatewayUpdateNote(i, patch)
    \/ \E cid \in 1 .. MaxCons : GatewayInsertRecording(cid)

\* two practitioners (and nobody) at the gateway
SpecRls == Init /\ [][NextRls]_vars

\* =================================================================== claims
\* the steps in which a request in flight is answered
HtcAnswered(call) == BagIn(call, htcPending) /\ htcPending' = Take(htcPending, call)
SaveAnswered(call) == BagIn(call, savePending) /\ savePending' = Take(savePending, call)
CompleteAnswered(call) ==
    BagIn(call, completePending) /\ completePending' = Take(completePending, call)
BackendAnswered(call) == BagIn(call, transcribing) /\ transcribing' = Take(transcribing, call)

Reviewed(opt) == opt # <<>> /\ opt[1].is_reviewed

\* C1: the medical_notes table holds at most one row per consultation,
\* whatever sequence of handleTranscriptionComplete calls has run.
C1_AtMostOneNotePerConsultation ==
    \A c \in 1..Len(consultations) : Cardinality(NotesOf(c)) <= 1

\* C2: a stored note's reviewed flag turns true only in the step in which a
\* handleSaveNote update for that note is answered; every row written by
\* handleTranscriptionComplete (either branch) is unreviewed, in the table and
\* in the page's state; the page's note turns reviewed only by a saveNote or
\* by loading a reviewed row.
C2_ReviewedOnlyBySaveNote ==
    [][ /\ \A i \in 1..Len(medical_notes') :
              ( /\ medical_notes'[i].is_reviewed
                /\ (i > Len(medical_notes) \/ ~medical_notes[i].is_reviewed) )
              => \E call \in BagToSet(savePending) :
                    SaveAnswered(call) /\ call.note.id = i
        /\ \A call \in BagToSet(htcPending) :
              (HtcAnswered(call) /\ medical_notes' # medical_notes)
              => /\ ~medical_notes'[Len(medical_notes')].is_reviewed
                 /\ call.live => ~Reviewed(medicalNote')
        /\ (Reviewed(medicalNote') /\ ~Reviewed(medicalNote))
              => \/ \E call \in BagToSet(savePending) : SaveAnswered(call)
                 \/ /\ route = 0
                    /\ \E i \in 1..Len(medical_notes) : medicalNote' = << medical_notes[i] >>
      ]_vars

\* C2 witness: a note was reviewed by saveNote and a later transcription
\* wrote an unreviewed row for the same consultation.
C2_Witness ==
    \E i, j \in 1..Len(medical_notes) :
        /\ i < j
        /\ medical_notes[i].consultation_id = medical_notes[j].consultation_id
        /\ medical_notes[i].is_reviewed
        /\ ~medical_notes[j].is_reviewed

\* C3: in every reachable state a consultation whose status is completed has
\* a medical note whose reviewed flag is true (so completion never takes
\* effect without a reviewed note, also when a transcription finishes late).
C3_CompletedHasReviewedNote ==
    \A c \in 1..Len(consultations) :
        consultations[c].status = "completed"
        => \E i \in NotesOf(c) : medical_notes[i].is_reviewed

\* C3 witness: a completed consultation for which a transcription that
\* finished after the review has written a further, unreviewed row.
C3_Witness ==
    \E c \in 1..Len(consultations) :
        /\ consultations[c].status = "completed"
        /\ \E i \in NotesOf(c) : ~medical_notes[i].is_reviewed

\* C4: a consultation row starts as in_progress, and once its status is
\* completed or cancelled no step changes it, in the table or on the page.
C4_StatusOneWay ==
    [][ /\ Len(consultations') >= Len(consultations)
        /\ \A c \in 1..Len(consultations) :
              consultations[c].status # "in_progress"
              => consultations'[c].status = consultations[c].status
        /\ \A c \in (Len(consultations) + 1)..Len(consultations') :
              consultations'[c].status = "in_progress"
        /\ ( /\ consultation # <<>>
             /\ consultation' # <<>>
             /\ consultation'[1].id = consultation[1].id
             /\ consultation[1].status # "in_progress" )
           => consultation'[1].status = consultation[1].status
      ]_vars

\* C4 witness: saveNote has acted on a cancelled consultation (its note is
\* reviewed) and the consultation is still cancelled.
C4_Witness ==
    \E c \in 1..Len(consultations) :
        /\ consultations[c].status = "cancelled"
        /\ \E i \in NotesOf(c) : medical_notes[i].is_reviewed

\* C5: once a consultation is completed, recording cannot be started on its
\* page and no further note row is written for it.
C5_NoRecordingAfterCompleted ==
    [][ \A c \in 1..Len(consultations) :
            consultations[c].status = "completed"
            => /\ (route = c /\ ~isRecording) => ~isRecording'
               /\ Cardinality({ i \in 1..Len(medical_notes') :
                                  medical_notes'[i].consultation_id = c })
                    = Cardinality(NotesOf(c))
      ]_vars

\* C6: when the transcription of a stopped recording ends, also in failure,
\* a transcript (the text or a placeholder) is handed to
\* handleTranscriptionComplete, so that a note write follows.
C6_FailedTranscriptionStillWritesNote ==
    [][ \A call \in BagToSet(transcribing) :
            BackendAnswered(call)
            => BagCardinality(htcPending') = BagCardinality(htcPending) + 1
      ]_vars

\* the note of the empty-transcript branch
IsFailedNote(row, cid) ==
    /\ row.consultation_id = cid
    /\ row.subjective = PlaceholderText
    /\ row.raw_transcript = TranscriptionFailedText
    /\ row.objective = <<>>
    /\ row.assessment = <<>>
    /\ row.plan = <<>>

\* C7 as stated: a handleTranscriptionComplete call with an empty or
\* whitespace-only transcript always ends with the placeholder note written
\* and never throws, also when the database write fails.
C7_BlankAlwaysWritesNote ==
    [][ \A call \in BagToSet(htcPending) :
            (HtcAnswered(call) /\ IsBlank(call.transcript))
            => /\ outcome' # "throw"
               /\ Len(medical_notes') = Len(medical_notes) + 1
               /\ IsFailedNote(medical_notes'[Len(medical_notes')], call.cid)
      ]_vars

\* C7 amended: such a call never throws; when the database write succeeds the
\* placeholder note is written (and becomes the page's note); when the write
\* fails no note is written, the page's note is kept and an error toast shows.
C7_BlankWritesNoteUnlessDbFails ==
    [][ \A call \in BagToSet(htcPending) :
            (HtcAnswered(call) /\ IsBlank(call.transcript))
            => /\ outcome' \in { "ok", "toast_error" }
               /\ outcome' = "ok"
                    => /\ Len(medical_notes') = Len(medical_notes) + 1
                       /\ SubSeq(medical_notes', 1, Len(medical_notes)) = medical_notes
                       /\ IsFailedNote(medical_notes'[Len(medical_notes')], call.cid)
                       /\ call.live
                            => medicalNote' = << medical_notes'[Len(medical_notes')] >>
               /\ outcome' = "toast_error"
                    => /\ medical_notes' = medical_notes
                       /\ medicalNote' = medicalNote
      ]_vars

\* C7 witness: the placeholder note of the empty-transcript branch is stored
\* and is the page's note.
C7_Witness ==
    \E i \in 1..Len(medical_notes) :
        /\ IsFailedNote(medical_notes[i], medical_notes[i].consultation_id)
        /\ medicalNote = << medical_notes[i] >>

\* C8: a note written by handleTranscriptionComplete for a transcript with
\* content has subjective and raw_transcript equal to the transcript exactly,
\* and objective, assessment and plan empty.
C8_VerbatimTranscript ==
    [][ \A call \in BagToSet(htcPending) :
            (HtcAnswered(call) /\ ~IsBlank(call.transcript) /\ outcome' = "ok")
            => /\ Len(medical_notes') = Len(medical_notes) + 1
               /\ SubSeq(medical_notes', 1, Len(medical_notes)) = medical_notes
               /\ LET row == medical_notes'[Len(medical_notes')]
                  IN  /\ row.consultation_id = call.cid
                      /\ row.subjective = call.transcript
                      /\ row.raw_transcript = call.transcript
                      /\ row.objective = <<>>
                      /\ row.assessment = <<>>
                      /\ row.plan = <<>>
                      /\ call.live => medicalNote' = << row >>
      ]_vars

\* C8 witness: a stored note holds a transcript with surrounding whitespace
\* unchanged in subjective and raw_transcript.
C8_Witness ==
    \E i \in 1..Len(medical_notes) :
        /\ medical_notes[i].subjective = << " ", "headache", " " >>
        /\ medical_notes[i].raw_transcript = << " ", "headache", " " >>

\* C9: a successful saveNote sets the four SOAP fields and reviewed = true
\* on the stored note and leaves raw_transcript, extracted_entities and
\* consultation_id of every stored note and of the page's note unchanged.
C9_SaveNoteFrame ==
    [][ \A call \in BagToSet(savePending) :
            (SaveAnswered(call) /\ outcome' = "ok")
            => /\ Len(medical_notes') = Len(medical_notes)
               /\ \A i \in 1..Len(medical_notes) :
                     /\ medical_notes'[i].raw_transcript = medical_notes[i].raw_transcript
                     /\ medical_notes'[i].extracted_entities
                            = medical_notes[i].extracted_entities
                     /\ medical_notes'[i].consultation_id = medical_notes[i].consultation_id
                     /\ i = call.note.id
                          => /\ medical_notes'[i].is_reviewed
                             /\ medical_notes'[i].subjective = call.note.subjective
                             /\ medical_notes'[i].objective = call.note.objective
                             /\ medical_notes'[i].assessment = call.note.assessment
                             /\ medical_notes'[i].plan = call.note.plan
                     /\ i # call.note.id => medical_notes'[i] = medical_notes[i]
               /\ (call.live /\ medicalNote # <<>>)
                     => /\ Reviewed(medicalNote')
                        /\ medicalNote'[1].raw_transcript = medicalNote[1].raw_transcript
                        /\ medicalNote'[1].extracted_entities
                               = medicalNote[1].extracted_entities
                        /\ medicalNote'[1].consultation_id = medicalNote[1].consultation_id
      ]_vars

\* C10: a successful completeConsultation leaves status = completed, and on
\* an already-completed consultation it changes nothing, in the table or on
\* the page: two calls give the state one call gives.
C10_CompleteIdempotent ==
    [][ \A call \in BagToSet(completePending) :
            (CompleteAnswered(call) /\ outcome' = "ok")
            => /\ consultations'[call.cid].status = "completed"
               /\ \A c \in 1..Len(consultations) :
                     c # call.cid => consultations'[c] = consultations[c]
               /\ consultations[call.cid].status = "completed"
                     => consultations' = consultations
               /\ (call.live /\ consultation # <<>>)
                     => consultation'[1].status = "completed"
               /\ (consultation # <<>> /\ consultation[1].status = "completed")
                     => consultation' = consultation
               /\ medical_notes' = medical_notes
               /\ medicalNote' = medicalNote
      ]_vars

\* C10 witness: a completeConsultation call is in flight on a consultation
\* that an earlier call has already completed.
C10_Witness ==
    \E call \in BagToSet(completePending) :
        consultations[call.cid].status = "completed"

ReplyNotJson ==
    /\ genPc = "done"
    /\ genReply # <<>>
    /\ genReply[1].kind = "text"
    /\ ~JsonParses(genReply[1].text)

\* C12: a vendor reply that is not valid JSON never makes note generation
\* fail: the response is a note object whose subjective is the raw text and
\* whose objective, assessment and plan are marked as unparsed.
C12_ParseFailureYieldsNote ==
    ReplyNotJson => genResponse = JsonResponse(FallbackNote(genReply[1].text))

\* C19: no external call is retried: a function sends at most one generation
\* request per invocation and ends with an error response on the first
\* failure of that request.
C19_NoRetry ==
    /\ llmCalls <= 1
    /\ (genReply # <<>> /\ genReply[1].kind = "error") => genPc = "done"

\* C13: a successful createConsultation with a non-empty patient name adds
\* exactly one consultation row, with status in_progress, a fresh id, the
\* signed-in user as doctor_id, the typed name, and patient_id null when the
\* patient id was left empty (never an empty string); the other rows are
\* untouched and the browser navigates to the new id (unless loading the new
\* page fails).
C13_CreateConsultation ==
    [][ Len(consultations') # Len(consultations)
        => /\ Len(consultations') = Len(consultations) + 1
           /\ SubSeq(consultations', 1, Len(consultations)) = consultations
           /\ LET row == consultations'[Len(consultations')]
              IN  /\ row.status = "in_progress"
                  /\ user # <<>>
                  /\ row.doctor_id = user[1]
                  /\ row.patient_name \in PatientNames \ { <<>> }
                  /\ row.patient_id \in { <<>> } \cup { << p >> : p \in PatientIds \ { <<>> } }
           /\ Len(consultations') \notin 1..Len(consultations)
           /\ outcome' = "ok"
                => /\ route' = Len(consultations')
                   /\ consultation' = << [id |-> route', status |-> "in_progress"] >>
           /\ outcome' # "ok" => route' = 0
      ]_vars

\* C13 witness: the second doctor has created a consultation without a
\* patient id and is on its page.
C13_Witness ==
    /\ route = Len(consultations)
    /\ route > 1
    /\ consultations[route].doctor_id = "doctor-2"
    /\ consultations[route].patient_id = <<>>
    /\ consultations[route].patient_name = SomePatient

\* C14: no consultation row has an empty or whitespace-only patient name, and
\* every row has a doctor_id.
C14_NameRequired ==
    \A c \in 1..Len(consultations) :
        /\ ~IsBlank(consultations[c].patient_name)
        /\ consultations[c].doctor_id \in { u[1] : u \in Users \ { <<>> } }

\* the recorder stays mounted over the step
RecorderStays == RecorderMounted /\ route' = route /\ activeTab' = activeTab

IsPrefix(a, b) == Len(a) <= Len(b) /\ SubSeq(b, 1, Len(a)) = a

\* C15: a start() refused by the microphone shows an error and leaves the
\* recorder as it was: isRecording and isPaused stay false, counter, timer,
\* chunks, media recorder and stream are untouched and no transcription is
\* triggered; recording begins only as a whole (recording flag, timer, counter
\* reset, empty buffer, live stream) and without an error.
C15_DeniedStartChangesNothing ==
    [][ /\ (RecorderStays /\ ~isRecording /\ ~isRecording')
            => /\ UNCHANGED << isPaused, recordingTime, timerRef, chunks, mediaState,
                               tracksLive >>
               /\ ~isPaused' /\ ~timerRef' /\ mediaState' = "inactive"
               /\ BagCardinality(transcribing') <= BagCardinality(transcribing)
        /\ (RecorderStays /\ ~isRecording /\ ~isProcessing /\ outcome' = "toast_error"
              /\ transcribing' = transcribing /\ htcPending' = htcPending)
            => ~isRecording'
        /\ (~isRecording /\ isRecording')
            => /\ outcome' = "ok"
               /\ timerRef' /\ recordingTime' = 0 /\ chunks' = <<>>
               /\ mediaState' = "recording" /\ tracksLive'
      ]_vars

\* C15 witness: after a finished recording (counter and chunks still hold its
\* values) a start was refused: the error shows and nothing is recording.
C15_Witness ==
    /\ RecorderMounted
    /\ outcome = "toast_error"
    /\ ~isRecording /\ ~isPaused /\ ~timerRef /\ ~tracksLive
    /\ recordingTime > 0
    /\ chunks # <<>>
    /\ transcribing # EmptyBag
    /\ htcPending = EmptyBag
    /\ ~isProcessing

DbCallFails ==
    /\ outcome' # "ok"
    /\ \/ \E call \in BagToSet(htcPending) : HtcAnswered(call)
       \/ \E call \in BagToSet(savePending) : SaveAnswered(call)
       \/ \E call \in BagToSet(completePending) : CompleteAnswered(call)
       \/ /\ route = 0 /\ route' = 0
          /\ Len(consultations') = Len(consultations)
          /\ outcome' = "toast_error"

\* the tables and the page's consultation and note are what they were
NothingWritten ==
    /\ consultations' = consultations
    /\ medical_notes' = medical_notes
    /\ consultation' = consultation
    /\ medicalNote' = medicalNote

\* a handler that ends well has written what it was called for
EndsWellOnlyWhenWritten ==
    /\ \A call \in BagToSet(htcPending) :
          (HtcAnswered(call) /\ outcome' = "ok")
          => Len(medical_notes') = Len(medical_notes) + 1
    /\ \A call \in BagToSet(savePending) :
          (SaveAnswered(call) /\ outcome' = "ok")
          => medical_notes'[call.note.id].is_reviewed
    /\ \A call \in BagToSet(completePending) :
          (CompleteAnswered(call) /\ outcome' = "ok")
          => consultations'[call.cid].status = "completed"

Cleanup(table, t) == { r \in table : ~(r.expires_at < t) }

\* the runs that have returned
ReturnedRuns == { k \in 1 .. Len(cleanupRuns) : cleanupRuns[k].pc = "done" }

\* the rows the runs so far have deleted
DeletedRows == UNION { cleanupRuns[k].deleted : k \in 1 .. Len(cleanupRuns) }

\* the latest now() of the runs in ks
LatestNow(ks) == CHOOSE t \in { cleanupRuns[k].now : k \in ks } :
                    \A k \in ks : cleanupRuns[k].now <= t

\* a row leaves the table only when its expiry is before the now() of a run
\* in progress, and no run writes a consultation or a note
OnlyExpiredDeleted ==
    /\ \A r \in audio_recordings \ audio_recordings' :
          \E k \in 1 .. Len(cleanupRuns) :
              /\ cleanupRuns[k].pc = "delete"
              /\ r.expires_at < cleanupRuns[k].now
    /\ audio_recordings' \subseteq audio_recordings
    /\ cleanupRuns' # cleanupRuns
          => /\ consultations' = consultations
             /\ medical_notes' = medical_notes

\* a run at a time at which a run of ks has already returned changes nothing
SecondRunChangesNothing(ks) ==
    \A k \in 1 .. Len(cleanupRuns) :
        /\ cleanupRuns[k].pc = "delete"
        /\ cleanupRuns'[k] # cleanupRuns[k]
        /\ \E j \in ks : cleanupRuns[j].now = cleanupRuns[k].now
        => audio_recordings' = audio_recordings

\* C20 as stated: whoever calls it, a run of the cleanup deletes exactly the
\* rows whose expiry has passed: no other row leaves the table, and no row
\* with an expiry before the run's now() is left when the run has returned.
C20_CleanupDeletesExpired ==
    /\ [][OnlyExpiredDeleted]_vars
    /\ [](\A k \in ReturnedRuns :
            \A r \in audio_recordings : ~(r.expires_at < cleanupRuns[k].now))

\* the returned runs of a caller that bypasses row level security
OwnerRuns == { k \in ReturnedRuns : cleanupRuns[k].bypassRls }

\* C20 amended: called by a role that bypasses row level security, a run
\* deletes exactly the rows whose expiry is before its now() and no others;
\* a second run at the same time changes nothing; when all runs have
\* returned the table is the one a single run at the latest now() leaves;
\* no consultation or note row is touched. Called by any other role, a run
\* deletes nothing.
C20_CleanupByOwner ==
    /\ [][ /\ OnlyExpiredDeleted
           /\ SecondRunChangesNothing(OwnerRuns)
           /\ \A k \in 1 .. Len(cleanupRuns) :
                 (~cleanupRuns[k].bypassRls /\ cleanupRuns'[k] # cleanupRuns[k])
                 => audio_recordings' = audio_recordings
         ]_vars
    /\ [](\A k \in OwnerRuns :
            \A r \in audio_recordings : ~(r.expires_at < cleanupRuns[k].now))
    /\ []((OwnerRuns # {} /\ ReturnedRuns = 1 .. Len(cleanupRuns))
            => audio_recordings
                 = Cleanup(audio_recordings \cup DeletedRows, LatestNow(OwnerRuns)))
    /\ [](\A k \in 1 .. Len(cleanupRuns) :
            ~cleanupRuns[k].bypassRls => cleanupRuns[k].deleted = {})

\* C20 witness: two runs of the owner with the same now() have run
\* concurrently, each has deleted a row, both have returned, and a row that
\* expires exactly at that now() is still in the table.
C20_Witness ==
    /\ Len(cleanupRuns) = 2
    /\ ReturnedRuns = { 1, 2 }
    /\ cleanupRuns[1].bypassRls /\ cleanupRuns[2].bypassRls
    /\ cleanupRuns[1].now = cleanupRuns[2].now
    /\ cleanupRuns[1].deleted # {}
    /\ cleanupRuns[2].deleted # {}
    /\ \E r \in audio_recordings : r.expires_at = cleanupRuns[1].now

\* the doctor_id of the consultation a note or a recording references there
OwnerOf(rows, cid) == IF cid \in 1 .. Len(rows) THEN << rows[cid].doctor_id >> ELSE <<>>

\* the signed-in practitioner is the doctor of consultation cid there
IsOwn(rows, cid) == user # <<>> /\ OwnerOf(rows, cid) = user

\* C21: under the row-level-security policies the signed-in practitioner
\* reads exactly their own rows (the dashboard list included), and every row
\* a request inserts or changes belongs to them before and after the request:
\* a consultation by its doctor_id, a note or a recording by the doctor_id of
\* the consultation it references.  Rows of another practitioner are neither
\* returned nor changed, and none is created in their name.
C21_RowLevelSecurity ==
    [][ /\ user' = user =>
          /\ \A c \in 1 .. Len(consultations') :
                (c > Len(consultations) \/ consultations'[c] # consultations[c])
                => /\ IsOwn(consultations', c)
                   /\ c <= Len(consultations) => IsOwn(consultations, c)
          /\ \A i \in 1 .. Len(medical_notes') :
                (i > Len(medical_notes) \/ medical_notes'[i] # medical_notes[i])
                => /\ IsOwn(consultations', medical_notes'[i].consultation_id)
                   /\ i <= Len(medical_notes)
                        => IsOwn(consultations, medical_notes[i].consultation_id)
          /\ audio_recordings \subseteq audio_recordings'
          /\ \A r \in audio_recordings' \ audio_recordings :
                IsOwn(consultations', r.consultation_id)
          /\ selected' # selected =>
                \E table \in GatewayTables :
                    selected' = { [table |-> table, row |-> row] : row \in
                        IF table = "consultations"
                        THEN { consultations[c] : c \in
                                 { d \in 1 .. Len(consultations) : IsOwn(consultations, d) } }
                        ELSE IF table = "medical_notes"
                        THEN { medical_notes[i] : i \in
                                 { j \in 1 .. Len(medical_notes) :
                                     IsOwn(consultations, medical_notes[j].consultation_id) } }
                        ELSE { r \in audio_recordings :
                                 IsOwn(consultations, r.consultation_id) } }
          /\ dashboardList' # dashboardList =>
                /\ \A k \in 1 .. Len(dashboardList') : IsOwn(consultations, dashboardList'[k].id)
                /\ { dashboardList'[k].id : k \in 1 .. Len(dashboardList') }
                     = { c \in 1 .. Len(consultations) : IsOwn(consultations, c) }
        /\ user' # user => UNCHANGED << consultations, medical_notes, audio_recordings >>
      ]_vars

\* C21 witness: both practitioners have a consultation, the first one's has
\* a note and a recording; the second is signed in, has loaded the dashboard
\* and has read the consultations: they see their own consultation only.
C21_Witness ==
    /\ user = << "doctor-2" >>
    /\ Len(consultations) = 2
    /\ consultations[1].doctor_id = "doctor-1"
    /\ consultations[2].doctor_id = "doctor-2"
    /\ \E i \in 1 .. Len(medical_notes) : medical_notes[i].consultation_id = 1
    /\ \E r \in audio_recordings : r.consultation_id = 1
    /\ Len(dashboardList) = 1
    /\ dashboardList[1].id = 2
    /\ selected = { [table |-> "consultations", row |-> consultations[2]] }

\* the requests of a bag whose issuing page is still mounted
LiveCalls(b) == BagCardinality([ e \in { x \in BagToSet(b) : x.live } |-> CopiesIn(e, b) ])

\* C22: within the session of one consultation page at most one
\* transcription request, and at most one note write resulting from one, is
\* in flight at any time.
C22_SingleThreadOfControl ==
    LiveCalls(transcribing) + LiveCalls(htcPending) <= 1

\* the function variants that send the request to a vendor with an API key
KeyedGenFns == GenFns \ { "generate-soap-note-basic" }

\* C23: a request that arrives while the API key of its call path is not set
\* ends with an error response and no request has been sent to the vendor.
C23_MissingKeyFailsBeforeVendorCall ==
    /\ (pollPc # "idle" /\ ~pollKey)
          => /\ pollPc = "done"
             /\ pollResponse[1].status = 500
             /\ statusChecks = 0
    /\ (genPc # "idle" /\ ~genKey /\ genFn \in KeyedGenFns)
          => /\ genPc = "done"
             /\ genResponse[1].status = 500
             /\ llmCalls = 0

\* a status request is answered in this step
StatusCheckAnswered == pollPc = "poll" /\ statusChecks' = statusChecks + 1

\* C24: a transcription function answers with the transcript text only in the
\* step in which a status check reports completed, and then with the text of
\* that answer; a status check that reports error, or whose request is not
\* ok, ends the function in that step with an error response, and a function
\* that has ended sends no further status check; while the vendor reports
\* queued or processing and attempts are left it goes on to the next wait;
\* every status check follows a wait of its own.
C24_PollOutcomes ==
    /\ [][ /\ (pollResponse' # pollResponse /\ pollResponse' # <<>>
                 /\ pollResponse'[1].status = 200)
              => /\ StatusCheckAnswered
                 /\ statusData'[1].ok
                 /\ statusData'[1].status = "completed"
                 /\ pollResponse' = TextResponse(statusData'[1].text)
           /\ StatusCheckAnswered
              => /\ (~statusData'[1].ok \/ statusData'[1].status = "error")
                    => /\ pollPc' = "done"
                       /\ pollResponse'[1].status = 500
                 /\ (statusData'[1].ok /\ statusData'[1].status = "completed")
                    => /\ pollPc' = "done"
                       /\ pollResponse'[1].status = 200
                 /\ (/\ statusData'[1].ok
                     /\ statusData'[1].status \in { "queued", "processing" }
                     /\ attempts + 1 < MaxAttempts(pollFn))
                    => /\ pollPc' = "wait"
                       /\ pollResponse' = <<>>
           /\ (pollPc = "done" /\ pollPc' = "done" /\ pollFn' = pollFn)
              => statusChecks' <= statusChecks
         ]_vars
    /\ [](pollPc = "poll" => waits = statusChecks + 1)
    /\ [](pollPc = "wait" => waits = statusChecks)
    /\ [](pollPc = "done" => waits = statusChecks)

\* C24 witness: a function has answered with the text after a status check
\* that reported queued or processing and a later one that reported
\* completed, each after a wait.
C24_Witness ==
    /\ pollPc = "done"
    /\ pollResponse # <<>>
    /\ pollResponse[1].status = 200
    /\ pollResponse[1].text # <<>>
    /\ statusChecks = 2
    /\ waits = 2
    /\ attempts = 1

\* the rows written by the branch of a non-empty transcript
TranscriptNotes ==
    { i \in 1 .. Len(medical_notes) : medical_notes[i].raw_transcript # TranscriptionFailedText }

\* C25: the step in which the upsert of a handleTranscriptionComplete call
\* is answered triggers one download, of the transcript, when the transcript
\* is not blank and the upsert has stored the row, and none otherwise; no
\* other step triggers a download; so there is one download per row written
\* from a transcript.
C25_DownloadOncePerStoredTranscript ==
    /\ [][ /\ \A call \in BagToSet(htcPending) :
                HtcAnswered(call)
                => downloads' =
                     IF /\ Len(medical_notes') = Len(medical_notes) + 1
                        /\ ~IsBlank(call.transcript)
                     THEN Append(downloads, call.transcript)
                     ELSE downloads
           /\ BagCardinality(htcPending') >= BagCardinality(htcPending)
                => downloads' = downloads
         ]_vars
    /\ [](Len(downloads) = Cardinality(TranscriptNotes))

\* C25 witness: two calls have ended, each has stored a row, one with a
\* transcript and one with a blank one: the transcript has been downloaded,
\* once, and nothing else.
C25_Witness ==
    /\ Len(medical_notes) = 2
    /\ Cardinality(TranscriptNotes) = 1
    /\ downloads = << << " ", "headache", " " >> >>
    /\ htcPending = EmptyBag
    /\ transcribing = EmptyBag

\* ---------------------------------------------------------------- C26
\* the intervals of startTimer that are still firing
LiveTimers == (IF timerRef THEN 1 ELSE 0) + lostTimers

\* C26: the audio object of a recording session holds chunks of that session
\* only, also when startRecording is called again before an earlier call has
\* come back from getUserMedia -- violated: both calls create a recorder, the
\* first one is never stopped and keeps pushing into the buffer of the second
C26_AudioOfOneSession ==
    \A i \in 1 .. Len(audioObjects) :
        \A j \in 1 .. Len(audioObjects[i].blob) :
            audioObjects[i].blob[j] = audioObjects[i].session

\* ---------------------------------------------------------------- C27
\* C27: at most one duration timer runs at any time and the counter advances
\* only while isRecording and not isPaused, also when startRecording is
\* called again during the permission await -- violated: the second
\* startTimer replaces the handle of the first interval without clearing it
C27_OneTimer ==
    /\ [](LiveTimers <= 1)
    /\ [][recordingTime' = recordingTime + 1 => isRecording /\ ~isPaused]_vars

\* ---------------------------------------------------------------- C28
\* C28: isProcessing is true exactly while a handleTranscriptionComplete
\* call of the page is running, and false again once every call has
\* finished -- violated: the finally of one call clears the flag while
\* another call of the same page is still waiting for its upsert
C28_ProcessingWhileHandlerRuns ==
    isProcessing <=> LiveCalls(htcPending) > 0

\* ---------------------------------------------------------------- C29
\* C29: the AudioRecorder never calls onTranscriptionComplete with an empty
\* or whitespace-only transcript (the backend's empty text is replaced by the
\* no-speech placeholder), so with the recorder as the only caller no note
\* of the "Transcription failed" branch is ever written, and the no-speech
\* placeholder is stored as subjective and raw_transcript and downloaded.
C29_NoBlankTranscriptDelivered ==
    /\ [](\A call \in BagToSet(htcPending) : ~IsBlank(call.transcript))
    /\ [](\A i \in 1 .. Len(medical_notes) :
             /\ medical_notes[i].raw_transcript # TranscriptionFailedText
             /\ medical_notes[i].subjective # PlaceholderText)
    /\ [][ \A call \in BagToSet(htcPending) :
             (HtcAnswered(call) /\ call.transcript = NoSpeechText /\ outcome' = "ok")
             => /\ Len(medical_notes') = Len(medical_notes) + 1
                /\ medical_notes'[Len(medical_notes')].subjective = NoSpeechText
                /\ medical_notes'[Len(medical_notes')].raw_transcript = NoSpeechText
                /\ downloads' = Append(downloads, NoSpeechText)
       ]_vars

\* C29 witness: the backend answered without text, and the note stored for
\* that recording and the downloaded file hold the no-speech placeholder
C29_Witness ==
    /\ \E i \in 1 .. Len(medical_notes) :
          /\ medical_notes[i].subjective = NoSpeechText
          /\ medical_notes[i].raw_transcript = NoSpeechText
    /\ downloads = << NoSpeechText >>
    /\ htcPending = EmptyBag

\* ---------------------------------------------------------------- C30
\* C30: a successful handleTranscriptionComplete on a page whose note is
\* reviewed replaces the page's note by an unreviewed one, so that Complete
\* Consultation is not offered; on a page that stays open the action becomes
\* available only in the step in which a saveNote succeeds, and never in the
\* step in which a saveNote fails.
C30_CompleteOnlyAfterSaveNote ==
    [][ /\ \A call \in BagToSet(htcPending) :
              (HtcAnswered(call) /\ call.live /\ outcome' = "ok")
              => /\ medicalNote' = << medical_notes'[Len(medical_notes')] >>
                 /\ ~Reviewed(medicalNote')
                 /\ ~CanComplete'
        /\ (route # 0 /\ route' = route /\ ~CanComplete /\ CanComplete')
              => \E call \in BagToSet(savePending) :
                    SaveAnswered(call) /\ call.live /\ outcome' = "ok"
        /\ \A call \in BagToSet(savePending) :
              (SaveAnswered(call) /\ outcome' = "throw") => (CanComplete' <=> CanComplete)
      ]_vars

\* C30 witness: the page of an open consultation shows the unreviewed note a
\* transcription has just written, the reviewed note of the same
\* consultation is still stored, and Complete Consultation is not offered
C30_Witness ==
    /\ route # 0
    /\ consultation # <<>> /\ consultation[1].status = "in_progress"
    /\ \E i, j \in 1 .. Len(medical_notes) :
          /\ i < j
          /\ medical_notes[i].consultation_id = route
          /\ medical_notes[j].consultation_id = route
          /\ medical_notes[i].is_reviewed
          /\ ~medical_notes[j].is_reviewed
          /\ medicalNote = << medical_notes[j] >>
    /\ ~CanComplete
    /\ htcPending = EmptyBag
    /\ savePending = EmptyBag

====
